---------------------------- MODULE Spec2Model ----------------------------
(***************************************************************************)
(* A model of the cs2_meeting_points analysis core:                        *)
(*   - the spread generator            (src/src/spread.rs)                 *)
(*   - the nav graph and find_path     (src/src/nav.rs)                    *)
(*   - the spawn-distance layer        (src/src/spread.rs)                 *)
(*   - the triangle reader and the BVH (src/src/collisions.rs)             *)
(*                                                                         *)
(* Numbers.  The program computes in f64.  The model computes in exact     *)
(* integer arithmetic on inputs for which every value the code forms is an *)
(* integer (or a ratio of two integers, kept as a pair).  f64::MAX, the    *)
(* "unreachable" sentinel, is the integer F64_MAX, larger than every       *)
(* finite distance of the model.                                           *)
(***************************************************************************)
EXTENDS Integers, Sequences, FiniteSets, TLC

(***************************************************************************)
(* Bounds of the model.                                                    *)
(***************************************************************************)
\* Area ids of the spread generator's inputs are 1..NumAreas.
NumAreas == 2
\* Finite spawn distances are 50, 100, ..., 50 * MaxDistSteps.
MaxDistSteps == 3

\* A Nav of the model has at most NavNumAreas areas, with ids 1..n.
NavNumAreas == 3
\* ... and at most MaxConnections connections in all.
MaxConnections == 2
\* The spawn lists of both teams hold at most MaxSpawns positions together.
MaxSpawns == 2

\* A triangle file of the model has at most MaxFileLen bytes.
MaxFileLen == 74
\* A triangle soup given to build_bvh has at most MaxTris triangles.
MaxTris == 3
\* The call stack has room for StackLimit nested calls of build_bvh.
StackLimit == 4
\* Jumps of the model span at most MaxJumpSteps steps of 20 units
\* horizontally.
MaxJumpSteps == 12

\* Runs of nav-analysis on the same working directory.
MaxRuns == 2

\* f64::MAX, the distance of an area no spawn reaches.
F64_MAX == 1000000
\* constants.rs
RUNNING_SPEED == 250
CROUCHING_SPEED == 85
CROUCHING_ATTRIBUTE_FLAG == 65536
GRAVITY == 800
PLAYER_WIDTH == 32
PLAYER_HEIGHT == 72
PLAYER_CROUCH_HEIGHT == 54
\* JUMP_HEIGHT = 55.83, in hundredths
JUMP_HEIGHT == 5583
\* 66.02 - JUMP_HEIGHT, in hundredths
CROUCH_JUMP_HEIGHT_GAIN == 6602 - JUMP_HEIGHT
\* f64::INFINITY, larger than every coordinate and ray parameter of the model
F64_INFINITY == 2000000
\* read_tri_file
BUFFER_SIZE == 1000

VARIABLES
    \* ---- generate_spreads: parameters
    spawn_distances_ct,      \* &[SpawnDistance], sorted by distance
    spawn_distances_t,       \* &[SpawnDistance], sorted by distance
    style,                   \* SpreadStyle: "Fine" or "Rough"
    visibility_cache,        \* HashMap<(u32, u32), bool>
    \* ---- generate_spreads: locals
    ct_index,
    t_index,
    new_marked_areas_ct,
    new_marked_areas_t,
    previous_areas_ct,
    previous_areas_t,
    spotted_areas_ct,
    spotted_areas_t,
    visibility_connections,
    last_plotted,
    result,
    current_area,            \* the entry taken by the latest iteration
    current_team,            \* "ct", "t", or "none" (no entry was taken)
    visible_areas,           \* newly_visible's value in the latest iteration
    spread_pc,               \* "loop" while in the loop, "done" after break
    \* ---- history: for each frame of result, the iteration that pushed it
    frame_log,
    iterations,              \* number of loop iterations so far
    \* ---- Nav
    nav_areas,               \* Nav.areas: area id -> NavArea
    nav_graph,               \* Nav.graph: (u, v) -> edge weight
    \* ---- the latest call on the Nav and what it returned
    nav_call,                \* "none", "find_path", "get_distances_from_spawns"
    path_start,              \* find_path's start: AreaIdent
    path_end,                \* find_path's end: AreaIdent
    start_area,              \* find_path's local start_area (0: none)
    end_area,                \* find_path's local end_area (0: none)
    path_result,             \* find_path's PathResult (or the panic)
    spawns,                  \* get_distances_from_spawns' Spawns
    distances,               \* its SpawnDistances {CT, T}
    \* ---- read_tri_file
    file_bytes,              \* the bytes of the .tri file
    file_position,           \* the file's cursor
    buffer,                  \* the bytes the latest read put into buffer[..n]
    read_triangles,          \* the local triangles: Vec<Triangle>
    read_pc,                 \* "loop" while in the loop, "done" after break
    \* ---- CollisionChecker::build_bvh, with its call stack
    bvh_triangles,           \* the argument of the outermost call
    bvh_stack,               \* one frame per call of build_bvh in progress
    bvh_root,                \* CollisionChecker.root: none or one BVHNode
    bvh_pc,                  \* "build", "built", "stack_overflow", "queried"
    \* ---- the latest call of connection_unobstructed and its value
    ray_start,
    ray_end,
    unobstructed,
    \* ---- Position::can_jump_to: the latest call and its value
    jump_from,               \* self
    jump_to,                 \* other
    jump_result,             \* the value returned
    jump_pc,                 \* "call" before the call, "done" after it
    \* ---- one NavArea being made (nav.rs)
    area_json,               \* the fields given: corners, and centroid or Absent
    area_call,               \* "new", "deserialize" or "regularize"
    nav_area,                \* the NavArea made, NoArea before
    area_pc,                 \* "call" before, "done" after
    \* ---- the process-maps command (main.rs)
    fs_files,                \* the files of the working directory: path -> contents
    fs_hashes_dir,           \* whether the directory hashes/ exists
    valid_maps,              \* what collect_valid_maps returned
    maps_to_update,          \* what process_maps returned
    maps_pc,                 \* "collect", "process", "done"
    \* ---- the nav-analysis command (main.rs) and get_visibility_cache (nav.rs)
    analysis_pc,             \* the statement of main about to run; "done", "aborted"
    analysis_run,            \* the number of the run of the command
    aborted_at,              \* the statement at which the run aborted
    spreads_saved,           \* the styles whose result file this run has written
    vis_cache_file,          \* None, or Some(bytes) of the .vis_cache file
    areas_visible_result,    \* what areas_visible gives for each pair of areas
    main_visibility_cache,   \* the HashMap get_visibility_cache returned
    \* ---- one call of areas_walkable (nav.rs)
    walk_area1,              \* area1
    walk_area2,              \* area2
    walk_checker,            \* what connection_unobstructed gives for the first and the second segment
    walk_segments,           \* the segments tested, in hundredths of a unit
    walk_result,             \* the value returned
    walk_pc,                 \* "call" before the call, "done" after it
    \* ---- regularize_nav_areas
    reg_nav_areas,           \* nav_areas: the original mesh, id -> NavArea
    grid_granularity,        \* the number of grid cells per axis
    reg_walls,               \* the planes of the walkability collision checker
    new_nav_areas,           \* the tiles (Vec<NewNavArea>)
    old_to_new_children,     \* original id -> ids of its child tiles
    ensure_queue,            \* the original connections the preservation loop has still to visit
    ensure_log,              \* what the preservation loop did for each original connection
    regularized,             \* the returned mapping, key -> NavArea
    reg_pc                   \* start, created, ensure, done or idle

spreadVars == <<spawn_distances_ct, spawn_distances_t, style, visibility_cache,
                ct_index, t_index, new_marked_areas_ct, new_marked_areas_t,
                previous_areas_ct, previous_areas_t, spotted_areas_ct,
                spotted_areas_t, visibility_connections, last_plotted, result,
                current_area, current_team, visible_areas, spread_pc,
                frame_log, iterations>>

navVars == <<nav_areas, nav_graph, nav_call, path_start, path_end, start_area,
             end_area, path_result, spawns, distances>>

triVars == <<file_bytes, file_position, buffer, read_triangles, read_pc>>

bvhVars == <<bvh_triangles, bvh_stack, bvh_root, bvh_pc, ray_start, ray_end, unobstructed>>

jumpVars == <<jump_from, jump_to, jump_result, jump_pc>>

areaVars == <<area_json, area_call, nav_area, area_pc>>

mapsVars == <<fs_files, fs_hashes_dir, valid_maps, maps_to_update, maps_pc>>

analysisVars == <<analysis_pc, analysis_run, aborted_at, spreads_saved, vis_cache_file, areas_visible_result, main_visibility_cache>>

walkVars == <<walk_area1, walk_area2, walk_checker, walk_segments, walk_result, walk_pc>>

regVars == <<reg_nav_areas, grid_granularity, reg_walls, new_nav_areas, old_to_new_children, ensure_queue, ensure_log, regularized, reg_pc>>

vars == <<spreadVars, navVars, triVars, bvhVars, jumpVars, areaVars, mapsVars, analysisVars, walkVars, regVars>>

\* What generate_spreads leaves alone.
notSpreadVars == <<navVars, triVars, bvhVars, jumpVars, areaVars, mapsVars, analysisVars, walkVars, regVars>>

\* What the calls on the Nav leave alone.
notNavVars == <<spreadVars, triVars, bvhVars, jumpVars, areaVars, mapsVars, analysisVars, walkVars, regVars>>

\* What read_tri_file leaves alone.
notTriVars == <<spreadVars, navVars, bvhVars, jumpVars, areaVars, mapsVars, analysisVars, walkVars, regVars>>

\* What the collision checker leaves alone.
notBvhVars == <<spreadVars, navVars, triVars, jumpVars, areaVars, mapsVars, analysisVars, walkVars, regVars>>

\* What can_jump_to leaves alone.
notJumpVars == <<spreadVars, navVars, triVars, bvhVars, areaVars, mapsVars, analysisVars, walkVars, regVars>>

\* What the construction of a NavArea leaves alone.
notAreaVars == <<spreadVars, navVars, triVars, bvhVars, jumpVars, mapsVars, analysisVars, walkVars, regVars>>

\* What process-maps leaves alone.
notMapsVars == <<spreadVars, navVars, triVars, bvhVars, jumpVars, areaVars, analysisVars, walkVars, regVars>>

\* What nav-analysis leaves alone.
notAnalysisVars == <<spreadVars, navVars, triVars, bvhVars, jumpVars, areaVars, mapsVars, walkVars, regVars>>

\* What areas_walkable leaves alone.
notWalkVars == <<spreadVars, navVars, triVars, bvhVars, jumpVars, areaVars, mapsVars, analysisVars, regVars>>

\* What regularize_nav_areas leaves alone.
notRegVars == <<spreadVars, navVars, triVars, bvhVars, jumpVars, areaVars, mapsVars, analysisVars, walkVars>>

(***************************************************************************)
(* Small helpers.                                                          *)
(***************************************************************************)
Range(s) == {s[i] : i \in 1..Len(s)}

(***************************************************************************)
(* spread.rs: the spread generator.                                        *)
(***************************************************************************)
SpreadAreaIds == 1..NumAreas

\* SpawnDistance {area, distance, path}; the area is kept as its area_id,
\* the only field of it generate_spreads reads.
SpawnDistance(a, d, p) == [area |-> a, distance |-> d, path |-> p]

NoSpawnDistance == SpawnDistance(0, 0, <<>>)

\* From<&SpawnDistance> for ReducedSpawnDistance
ReducedSpawnDistance(sd) == [area |-> sd.area, path |-> sd.path]

\* assert_sorted
assert_sorted(spawn_distances) ==
    \A i \in 1..(Len(spawn_distances) - 1) :
        spawn_distances[i].distance <= spawn_distances[i + 1].distance

\* A slip in round_up_to_next_100: floor instead of ceil.
round_down_to_previous_100(value) == (value \div 100) * 100

\* round_up_to_next_100: (value / 100.0).ceil() * 100.0, on values >= 0
round_up_to_next_100(value) == ((value + 99) \div 100) * 100

\* A slip in newly_visible_fine: the test on the two spotted sets is missing.
newly_visible_fine_cache_only(current, previous_opposing_areas, own_spotted_areas, opposing_spotted_areas, cache) ==
    LET Keep(opposing_area) == cache[<<current.area, opposing_area.area>>]
    IN  [results |-> SelectSeq(previous_opposing_areas, Keep),
         own     |-> own_spotted_areas,
         opp     |-> opposing_spotted_areas]

\* newly_visible_fine: no mutation of the spotted sets
newly_visible_fine(current, previous_opposing_areas, own_spotted_areas, opposing_spotted_areas, cache) ==
    LET Keep(opposing_area) ==
            /\ ~(/\ current.area \in own_spotted_areas
                 /\ opposing_area.area \in opposing_spotted_areas)
            /\ cache[<<current.area, opposing_area.area>>]
    IN  [results |-> SelectSeq(previous_opposing_areas, Keep),
         own     |-> own_spotted_areas,
         opp     |-> opposing_spotted_areas]

\* A slip in newly_visible_rough: the early return on a spotted path is
\* missing.
newly_visible_rough_no_path_check(current, previous_opposing_areas, own_spotted_areas, opposing_spotted_areas, cache) ==
    LET Keep(opposing_area) == cache[<<current.area, opposing_area.area>>]
        results == SelectSeq(previous_opposing_areas, Keep)
    IN  [results |-> results,
         own |-> IF results = <<>> THEN own_spotted_areas
                 ELSE own_spotted_areas \cup {current.area},
         opp |-> opposing_spotted_areas \cup {o.area : o \in Range(results)}]

\* A slip in newly_visible_rough: the two inserts take each other's id.
newly_visible_rough_swapped_marks(current, previous_opposing_areas, own_spotted_areas, opposing_spotted_areas, cache) ==
    LET Keep(opposing_area) == cache[<<current.area, opposing_area.area>>]
        results == SelectSeq(previous_opposing_areas, Keep)
    IN  IF \E i \in 1..Len(current.path) : current.path[i] \in own_spotted_areas
        THEN [results |-> <<>>, own |-> own_spotted_areas,
              opp |-> opposing_spotted_areas]
        ELSE [results |-> results,
              own |-> own_spotted_areas \cup {o.area : o \in Range(results)},
              opp |-> IF results = <<>> THEN opposing_spotted_areas
                      ELSE opposing_spotted_areas \cup {current.area}]

\* newly_visible_rough: mutates both spotted sets while collecting
newly_visible_rough(current, previous_opposing_areas, own_spotted_areas, opposing_spotted_areas, cache) ==
    LET Keep(opposing_area) == cache[<<current.area, opposing_area.area>>]
        results == SelectSeq(previous_opposing_areas, Keep)
    IN  IF \E i \in 1..Len(current.path) : current.path[i] \in own_spotted_areas
        THEN [results |-> <<>>, own |-> own_spotted_areas,
              opp |-> opposing_spotted_areas]
        ELSE [results |-> results,
              own |-> IF results = <<>> THEN own_spotted_areas
                      ELSE own_spotted_areas \cup {current.area},
              opp |-> opposing_spotted_areas \cup {o.area : o \in Range(results)}]

\* newly_visible: the dispatch on the style
newly_visible(current, previous_opposing_areas, own_spotted_areas, opposing_spotted_areas, st, cache) ==
    IF st = "Fine"
    THEN newly_visible_fine(current, previous_opposing_areas, own_spotted_areas,
                            opposing_spotted_areas, cache)
    ELSE newly_visible_rough(current, previous_opposing_areas, own_spotted_areas,
                             opposing_spotted_areas, cache)

\* A slip in the frame push: the new_marked sets are cloned into the frame
\* instead of being moved out.
PushFrameCloneMarked(marked_ct, marked_t, connections) ==
    [frame |-> [new_marked_areas_ct    |-> marked_ct,
                new_marked_areas_t     |-> marked_t,
                visibility_connections |-> connections],
     marked_ct   |-> marked_ct,
     marked_t    |-> marked_t,
     connections |-> <<>>]

\* A slip in the frame push: the connections are cloned into the frame
\* instead of being moved out.
PushFrameCloneConnections(marked_ct, marked_t, connections) ==
    [frame |-> [new_marked_areas_ct    |-> marked_ct,
                new_marked_areas_t     |-> marked_t,
                visibility_connections |-> connections],
     marked_ct   |-> {},
     marked_t    |-> {},
     connections |-> connections]

\* result.push(SpreadResult {mem::take(..), mem::take(..), mem::take(..)}):
\* the frame, and what the three locals hold after the takes.
PushFrame(marked_ct, marked_t, connections) ==
    [frame |-> [new_marked_areas_ct    |-> marked_ct,
                new_marked_areas_t     |-> marked_t,
                visibility_connections |-> connections],
     marked_ct   |-> {},
     marked_t    |-> {},
     connections |-> <<>>]

\* A slip in the selection at the head of the loop: the comparison of the
\* two heads is turned round.
NextTeamLargerFirst ==
    IF /\ ct_index < Len(spawn_distances_ct)
       /\ \/ t_index >= Len(spawn_distances_t)
          \/ spawn_distances_ct[ct_index + 1].distance
                 > spawn_distances_t[t_index + 1].distance
    THEN "ct"
    ELSE IF t_index < Len(spawn_distances_t) THEN "t" ELSE "none"

\* A slip in the selection at the head of the loop: the CT list is taken
\* as long as it has entries, without looking at the distances.
NextTeamCtFirst ==
    IF ct_index < Len(spawn_distances_ct) THEN "ct"
    ELSE IF t_index < Len(spawn_distances_t) THEN "t" ELSE "none"

\* Which branch of the selection at the head of the loop is taken.
NextTeam ==
    IF /\ ct_index < Len(spawn_distances_ct)
       /\ \/ t_index >= Len(spawn_distances_t)
          \/ spawn_distances_ct[ct_index + 1].distance
                 < spawn_distances_t[t_index + 1].distance
    THEN "ct"
    ELSE IF t_index < Len(spawn_distances_t) THEN "t" ELSE "none"

\* The entry that branch takes (indices are 0-based in the code).
NextEntry ==
    CASE NextTeam = "ct" -> spawn_distances_ct[ct_index + 1]
      [] NextTeam = "t"  -> spawn_distances_t[t_index + 1]
      [] OTHER           -> NoSpawnDistance

\* The loop body after the selection: `current` of `team` was taken, the
\* new_marked sets are marked_ct and marked_t, the opposing team's previous
\* areas are opposing_previous_areas.
ProcessCurrent(team, current, marked_ct, marked_t, opposing_previous_areas) ==
    LET own0 == IF team = "ct" THEN spotted_areas_ct ELSE spotted_areas_t
        opp0 == IF team = "ct" THEN spotted_areas_t ELSE spotted_areas_ct
        n    == Len(current.path)
        \* path shadowing
        own1 == IF n >= 2 /\ current.path[n - 1] \in own0
                THEN own0 \cup {current.area} ELSE own0
        nv   == newly_visible(current, opposing_previous_areas, own1, opp0,
                              style, visibility_cache)
        vis  == nv.results
        own2 == IF vis = <<>> THEN nv.own ELSE nv.own \cup {current.area}
        opp2 == nv.opp \cup {o.area : o \in Range(vis)}
        conns == visibility_connections \o
                 [i \in 1..Len(vis) |->
                     <<ReducedSpawnDistance(current), ReducedSpawnDistance(vis[i])>>]
        log  == [team |-> team,
                 index |-> IF team = "ct" THEN ct_index + 1 ELSE t_index + 1,
                 opp_index |-> IF team = "ct" THEN t_index ELSE ct_index]
    IN  /\ current_area' = current
        /\ current_team' = team
        /\ IF current.distance = F64_MAX
           THEN \* the sentinel: push the terminal frame and break
                LET p == PushFrame(marked_ct, marked_t, visibility_connections)
                IN  /\ result' = Append(result, p.frame)
                    /\ frame_log' = Append(frame_log, [log EXCEPT !.team = "none"])
                    /\ new_marked_areas_ct' = p.marked_ct
                    /\ new_marked_areas_t' = p.marked_t
                    /\ visibility_connections' = p.connections
                    /\ visible_areas' = <<>>
                    /\ spread_pc' = "done"
                    /\ UNCHANGED <<spotted_areas_ct, spotted_areas_t, last_plotted>>
           ELSE /\ visible_areas' = vis
                /\ spotted_areas_ct' = IF team = "ct" THEN own2 ELSE opp2
                /\ spotted_areas_t' = IF team = "ct" THEN opp2 ELSE own2
                /\ spread_pc' = "loop"
                /\ IF vis = <<>> /\ current.distance <= last_plotted + 100
                   THEN \* continue
                        /\ new_marked_areas_ct' = marked_ct
                        /\ new_marked_areas_t' = marked_t
                        /\ visibility_connections' = conns
                        /\ UNCHANGED <<result, frame_log, last_plotted>>
                   ELSE LET p == PushFrame(marked_ct, marked_t, conns)
                        IN  /\ result' = Append(result, p.frame)
                            /\ frame_log' = Append(frame_log, log)
                            /\ new_marked_areas_ct' = p.marked_ct
                            /\ new_marked_areas_t' = p.marked_t
                            /\ visibility_connections' = p.connections
                            /\ last_plotted' = round_up_to_next_100(current.distance)

\* One loop iteration that takes the head of the CT list.
IterateCt ==
    /\ spread_pc = "loop"
    /\ NextTeam = "ct"
    /\ LET current == spawn_distances_ct[ct_index + 1]
       IN  /\ previous_areas_ct' = Append(previous_areas_ct, current)
           /\ ct_index' = ct_index + 1
           /\ ProcessCurrent("ct", current,
                             new_marked_areas_ct \cup {current.area},
                             new_marked_areas_t, previous_areas_t)
    /\ iterations' = iterations + 1
    /\ UNCHANGED <<spawn_distances_ct, spawn_distances_t, style, visibility_cache,
                   t_index, previous_areas_t>>
    /\ UNCHANGED notSpreadVars

\* One loop iteration that takes the head of the T list.
IterateT ==
    /\ spread_pc = "loop"
    /\ NextTeam = "t"
    /\ LET current == spawn_distances_t[t_index + 1]
       IN  /\ previous_areas_t' = Append(previous_areas_t, current)
           /\ t_index' = t_index + 1
           /\ ProcessCurrent("t", current, new_marked_areas_ct,
                             new_marked_areas_t \cup {current.area},
                             previous_areas_ct)
    /\ iterations' = iterations + 1
    /\ UNCHANGED <<spawn_distances_ct, spawn_distances_t, style, visibility_cache,
                   ct_index, previous_areas_ct>>
    /\ UNCHANGED notSpreadVars

\* A slip in the last branch of the selection: break without the push of
\* the terminal frame.
IterateExhaustedWithoutFrame ==
    /\ spread_pc = "loop"
    /\ NextTeam = "none"
    /\ current_area' = NoSpawnDistance
    /\ current_team' = "none"
    /\ visible_areas' = <<>>
    /\ spread_pc' = "done"
    /\ iterations' = iterations + 1
    /\ UNCHANGED <<spawn_distances_ct, spawn_distances_t, style, visibility_cache,
                   ct_index, t_index, previous_areas_ct, previous_areas_t,
                   spotted_areas_ct, spotted_areas_t, last_plotted, result, frame_log,
                   new_marked_areas_ct, new_marked_areas_t, visibility_connections>>
    /\ UNCHANGED notSpreadVars

\* The loop iteration with both lists exhausted: the terminal frame, break.
IterateExhausted ==
    /\ spread_pc = "loop"
    /\ NextTeam = "none"
    /\ LET p == PushFrame(new_marked_areas_ct, new_marked_areas_t,
                          visibility_connections)
       IN  /\ result' = Append(result, p.frame)
           /\ new_marked_areas_ct' = p.marked_ct
           /\ new_marked_areas_t' = p.marked_t
           /\ visibility_connections' = p.connections
    /\ frame_log' = Append(frame_log,
                           [team |-> "none", index |-> 0, opp_index |-> 0])
    /\ current_area' = NoSpawnDistance
    /\ current_team' = "none"
    /\ visible_areas' = <<>>
    /\ spread_pc' = "done"
    /\ iterations' = iterations + 1
    /\ UNCHANGED <<spawn_distances_ct, spawn_distances_t, style, visibility_cache,
                   ct_index, t_index, previous_areas_ct, previous_areas_t,
                   spotted_areas_ct, spotted_areas_t, last_plotted>>
    /\ UNCHANGED notSpreadVars

(***************************************************************************)
(* The inputs of generate_spreads the model enumerates: per team a list of *)
(* at most NumAreas entries with distinct area ids, sorted by distance     *)
(* (assert_sorted holds).  A reachable entry's path ends in its own area   *)
(* and is either that area alone or preceded by an area that comes earlier *)
(* in the same list; an unreachable entry has the empty path.  Area ids    *)
(* are names: the CT list takes them in the order 1, 2, ... and the T list *)
(* in any order.                                                           *)
(***************************************************************************)
SpreadDistances == {50 * k : k \in 1..MaxDistSteps} \cup {F64_MAX}

\* The entries possible at position i of a list whose areas are ids.
EntriesAt(ids, i) ==
    {SpawnDistance(ids[i], d, p) :
        d \in SpreadDistances \ {F64_MAX},
        p \in {<<ids[i]>>} \cup {<<ids[j], ids[i]>> : j \in 1..(i - 1)}}
    \cup {SpawnDistance(ids[i], F64_MAX, <<>>)}

\* All sorted lists over the id sequence ids.
ListsOver(ids) ==
    {l \in [1..Len(ids) -> UNION {EntriesAt(ids, i) : i \in 1..Len(ids)}] :
        /\ \A i \in 1..Len(ids) : l[i] \in EntriesAt(ids, i)
        /\ assert_sorted(l)}

\* Sequences of distinct area ids of length n.
IdSeqs(n) ==
    {s \in [1..n -> SpreadAreaIds] : \A i, j \in 1..n : i # j => s[i] # s[j]}

CtLists == UNION {ListsOver([i \in 1..n |-> i]) : n \in 0..NumAreas}

TLists == UNION {ListsOver(s) : s \in UNION {IdSeqs(n) : n \in 0..NumAreas}}

SpreadInit ==
    /\ spawn_distances_ct \in CtLists
    /\ spawn_distances_t \in TLists
    /\ style \in {"Fine", "Rough"}
    /\ visibility_cache \in [SpreadAreaIds \X SpreadAreaIds -> BOOLEAN]
    /\ ct_index = 0
    /\ t_index = 0
    /\ new_marked_areas_ct = {}
    /\ new_marked_areas_t = {}
    /\ previous_areas_ct = <<>>
    /\ previous_areas_t = <<>>
    /\ spotted_areas_ct = {}
    /\ spotted_areas_t = {}
    /\ visibility_connections = <<>>
    /\ last_plotted = 0
    /\ result = <<>>
    /\ current_area = NoSpawnDistance
    /\ current_team = "none"
    /\ visible_areas = <<>>
    /\ spread_pc = "loop"
    /\ frame_log = <<>>
    /\ iterations = 0

SpreadNext == IterateCt \/ IterateT \/ IterateExhausted

\* generate_spreads is not running.
SpreadIdle ==
    /\ spawn_distances_ct = <<>>
    /\ spawn_distances_t = <<>>
    /\ style = "Rough"
    /\ visibility_cache = <<>>
    /\ ct_index = 0
    /\ t_index = 0
    /\ new_marked_areas_ct = {}
    /\ new_marked_areas_t = {}
    /\ previous_areas_ct = <<>>
    /\ previous_areas_t = <<>>
    /\ spotted_areas_ct = {}
    /\ spotted_areas_t = {}
    /\ visibility_connections = <<>>
    /\ last_plotted = 0
    /\ result = <<>>
    /\ current_area = NoSpawnDistance
    /\ current_team = "none"
    /\ visible_areas = <<>>
    /\ spread_pc = "done"
    /\ frame_log = <<>>
    /\ iterations = 0


(***************************************************************************)
(* position.rs and nav.rs: positions, areas, the graph, find_path.         *)
(*                                                                         *)
(* Distances.  Every distance of the model is the code's distance times    *)
(* DistanceUnit = 34: with CROUCHING_SPEED / RUNNING_SPEED = 17 / 50 the   *)
(* three possible edge weights d, d * 67 / 34 and d * 50 / 17 are then the *)
(* integers 34 d, 67 d and 100 d.  Centroids lie on the lattice            *)
(* {0, 24} x {0, 32}, whose points are 0, 24, 32 or 40 apart, so hypot     *)
(* is exact.                                                               *)
(***************************************************************************)
DistanceUnit == 34

Abs(n) == IF n < 0 THEN 0 - n ELSE n

\* Position::new
Position(px, py, pz) == [x |-> px, y |-> py, z |-> pz]

\* Position::distance_2d: (self.x - other.x).hypot(self.y - other.y)
distance_2d(a, b) ==
    LET dx == a.x - b.x
        dy == a.y - b.y
    IN  DistanceUnit * (CHOOSE r \in 0..(Abs(dx) + Abs(dy)) : r * r = dx * dx + dy * dy)

\* Position::distance is (self - other).length(); only compared, never
\* added, so the model keeps its square.
distance_squared(a, b) ==
    (a.x - b.x) * (a.x - b.x) + (a.y - b.y) * (a.y - b.y) + (a.z - b.z) * (a.z - b.z)

RECURSIVE SumSeq(_)
SumSeq(s) == IF s = <<>> THEN 0 ELSE Head(s) + SumSeq(Tail(s))

\* nav.rs centroid(): the componentwise mean of the corners
centroid(corners) ==
    IF corners = <<>> THEN Position(0, 0, 0)
    ELSE LET count == Len(corners)
         IN  Position(SumSeq([i \in 1..count |-> corners[i].x]) \div count,
                      SumSeq([i \in 1..count |-> corners[i].y]) \div count,
                      SumSeq([i \in 1..count |-> corners[i].z]) \div count)

\* NavArea::new
NavAreaNew(area_id, dynamic_attribute_flags, corners, connections) ==
    [area_id |-> area_id, dynamic_attribute_flags |-> dynamic_attribute_flags,
     corners |-> corners, connections |-> connections,
     centroid |-> centroid(corners)]

\* AreaLike::requires_crouch: equality with the flag, not a mask
requires_crouch(area) == area.dynamic_attribute_flags = CROUCHING_ATTRIBUTE_FLAG

\* NavArea::contains: geo's Contains of the 2D polygon for a point, true for
\* the points of the interior (not of the boundary); by crossing number.
contains(area, point) ==
    LET c == area.corners
        n == Len(c)
        Nxt(i) == IF i = n THEN 1 ELSE i + 1
        Cross(a, b) == (b.x - a.x) * (point.y - a.y) - (point.x - a.x) * (b.y - a.y)
        OnEdge(a, b) ==
            /\ Cross(a, b) = 0
            /\ (point.x - a.x) * (point.x - b.x) <= 0
            /\ (point.y - a.y) * (point.y - b.y) <= 0
        \* the edge crosses the horizontal ray from the point to +x
        Crosses(a, b) ==
            /\ (a.y > point.y) # (b.y > point.y)
            /\ ((point.y - a.y) * (b.x - a.x) - (point.x - a.x) * (b.y - a.y))
                   * (b.y - a.y) > 0
    IN  /\ n >= 3
        /\ \A i \in 1..n : ~OnEdge(c[i], c[Nxt(i)])
        /\ Cardinality({i \in 1..n : Crosses(c[i], c[Nxt(i)])}) % 2 = 1

\* The weight Nav::new gives the edge area -> connected_area.
time_adjusted(area, connected_area) ==
    LET dist_weight == distance_2d(area.centroid, connected_area.centroid)
        Speed(a) == IF requires_crouch(a) THEN CROUCHING_SPEED ELSE RUNNING_SPEED
        \* dist_weight / (speed / RUNNING_SPEED)
        area_time_adjusted_distance ==
            (dist_weight * RUNNING_SPEED) \div Speed(area)
        connected_area_time_adjusted_distance ==
            (dist_weight * RUNNING_SPEED) \div Speed(connected_area)
    IN  (area_time_adjusted_distance + connected_area_time_adjusted_distance) \div 2

\* Nav::new: the graph, one edge per connection.
NavNew(areas) ==
    LET edges == {e \in (DOMAIN areas) \X (DOMAIN areas) :
                    e[2] \in Range(areas[e[1]].connections)}
    IN  [e \in edges |-> time_adjusted(areas[e[1]], areas[e[2]])]

\* Nav::find_area: the areas that min_by can return, the possible values of
\* its result; the empty set is None.  Among several areas of the same
\* smallest |centroid.z - position.z|, min_by returns the one the hash map
\* iterates first.
find_area(position) ==
    LET inside == {id \in DOMAIN nav_areas : contains(nav_areas[id], position)}
        Dz(id) == Abs(nav_areas[id].centroid.z - position.z)
    IN  {id \in inside : \A other \in inside : Dz(id) <= Dz(other)}

\* Nav::find_closest_area_centroid: the possible values of its result; it
\* panics (unwrap of None) on a Nav without areas, the empty set here.
find_closest_area_centroid(position) ==
    LET D(id) == distance_squared(nav_areas[id].centroid, position)
    IN  {id \in DOMAIN nav_areas : \A other \in DOMAIN nav_areas : D(id) <= D(other)}

\* AreaIdent
IdentId(id) == [kind |-> "Id", id |-> id, pos |-> Position(0, 0, 0)]

IdentPos(pos) == [kind |-> "Pos", id |-> 0, pos |-> pos]

NoIdent == [kind |-> "none", id |-> 0, pos |-> Position(0, 0, 0)]

\* The area ids an endpoint of find_path can resolve to (empty: the panic).
ResolveArea(ident) ==
    IF ident.kind = "Id" THEN {ident.id}
    ELSE IF find_area(ident.pos) # {} THEN find_area(ident.pos)
    ELSE find_closest_area_centroid(ident.pos)

\* Nav::path_cost: the sum of the edge weights over the windows of the path
path_cost(path) ==
    SumSeq([i \in 1..(Len(path) - 1) |-> nav_graph[<<path[i], path[i + 1]>>]])

\* The paths along edges, without a repeated node, from start to finish.
SimplePaths(start, finish) ==
    LET nodes == DOMAIN nav_areas
    IN  {p \in UNION {[1..k -> nodes] : k \in 1..Cardinality(nodes)} :
            /\ p[1] = start
            /\ p[Len(p)] = finish
            /\ \A i, j \in 1..Len(p) : i # j => p[i] # p[j]
            /\ \A i \in 1..(Len(p) - 1) : <<p[i], p[i + 1]>> \in DOMAIN nav_graph}

\* petgraph's astar with the 2D centroid distance as heuristic (consistent:
\* no edge weighs less than the 2D distance of its ends): the paths of
\* least cost, of which it returns one; the empty set is None.
astar(start, finish) ==
    LET paths == SimplePaths(start, finish)
    IN  {p \in paths : \A q \in paths : path_cost(p) <= path_cost(q)}

\* PathResult; outcome "panic" stands for the unwinding of a failed unwrap.
PathResult(path, distance) == [path |-> path, distance |-> distance, outcome |-> "ok"]

PathPanic == [path |-> <<>>, distance |-> 0, outcome |-> "panic"]

NoPathResult == [path |-> <<>>, distance |-> 0, outcome |-> "none"]

\* A slip in find_path: no path is reported as distance 0.
UnreachableResultZero == PathResult(<<>>, 0)

\* find_path's value when astar finds no path
UnreachableResult == PathResult(<<>>, F64_MAX)

\* find_path's total distance for the path astar returned
total_distance(start, finish, resolved_start, resolved_end, path_ids) ==
    LET n == Len(path_ids)
    IN  IF n <= 2
        THEN CASE start.kind = "Pos" /\ finish.kind = "Pos" ->
                    distance_2d(start.pos, finish.pos)
               [] start.kind = "Id" /\ finish.kind = "Id" -> path_cost(path_ids)
               [] start.kind = "Pos" /\ finish.kind = "Id" ->
                    distance_2d(start.pos, nav_areas[resolved_end].centroid)
               [] OTHER ->
                    distance_2d(nav_areas[resolved_start].centroid, finish.pos)
        ELSE LET start_distance ==
                     IF start.kind = "Pos"
                     THEN distance_2d(start.pos, nav_areas[path_ids[2]].centroid)
                     ELSE path_cost(SubSeq(path_ids, 1, 2))
                 \* path_ids[1..path_ids.len() - 1]
                 middle_distance == path_cost(SubSeq(path_ids, 2, n - 1))
                 end_distance ==
                     IF finish.kind = "Pos"
                     THEN distance_2d(nav_areas[path_ids[n - 1]].centroid, finish.pos)
                     \* path_ids[path_ids.len() - 2..path_ids.len() - 1]
                     ELSE path_cost(SubSeq(path_ids, n - 1, n - 1))
             IN  start_distance + middle_distance + end_distance

\* Nav::find_path from the match on astar's value on: the possible results
\* once start_area and end_area are resolved.
find_path_between(start, finish, resolved_start, resolved_end) ==
    IF astar(resolved_start, resolved_end) = {} THEN {UnreachableResult}
    ELSE {PathResult(path_ids, total_distance(start, finish, resolved_start, resolved_end, path_ids)) : path_ids \in astar(resolved_start, resolved_end)}

\* Nav::find_path: the possible results.
find_path(start, finish) ==
    IF ResolveArea(start) = {} \/ ResolveArea(finish) = {} THEN {PathPanic}
    ELSE UNION {find_path_between(start, finish, a, b) : a \in ResolveArea(start), b \in ResolveArea(finish)}

(***************************************************************************)
(* spread.rs: get_distances_from_spawns.                                   *)
(***************************************************************************)
\* All sequences that take their i-th element from the i-th set.
RECURSIVE ChoiceSeqs(_)
ChoiceSeqs(sets) ==
    IF sets = <<>> THEN {<<>>}
    ELSE {<<h>> \o t : h \in Head(sets), t \in ChoiceSeqs(Tail(sets))}

\* Iterator::min_by on the distance: the first of the least elements;
\* unwrap_or the unreachable PathResult for no element.
min_by_distance(paths) ==
    IF paths = <<>> THEN PathResult(<<>>, F64_MAX)
    ELSE LET least == {i \in 1..Len(paths) : \A j \in 1..Len(paths) : paths[i].distance <= paths[j].distance}
         IN  paths[CHOOSE i \in least : \A j \in least : i <= j]

\* The SpawnDistance values the closure can build for one area and one
\* team's spawn points: one find_path per spawn point, then min_by.
spawn_distance_of(area_id, spawn_points) ==
    {SpawnDistance(area_id, min_by_distance(paths).distance, min_by_distance(paths).path) :
        paths \in ChoiceSeqs([k \in 1..Len(spawn_points) |-> find_path(IdentPos(spawn_points[k]), IdentId(area_id))])}

\* All orders of the elements of a sequence.
Permutations_of(list) ==
    {[i \in 1..Len(list) |-> list[f[i]]] : f \in {g \in [1..Len(list) -> 1..Len(list)] : \A i, j \in 1..Len(list) : i # j => g[i] # g[j]}}

\* The order of areas.values() alone: the lists as they are before sorting.
hash_map_order(list) == Permutations_of(list)

\* par_sort_unstable_by on the distance, applied to a list whose order is
\* that of areas.values(): any order that is sorted by distance.
par_sort_unstable_by(list) == {l \in Permutations_of(list) : assert_sorted(l)}

\* The lists one team can get from get_distances_from_spawns.
team_distances(spawn_points) ==
    LET ids == DOMAIN nav_areas
        order == CHOOSE o \in [1..Cardinality(ids) -> ids] : \A i, j \in 1..Cardinality(ids) : i # j => o[i] # o[j]
    IN  UNION {par_sort_unstable_by(unsorted) :
                 unsorted \in ChoiceSeqs([i \in 1..Cardinality(ids) |-> spawn_distance_of(order[i], spawn_points)])}

(***************************************************************************)
(* The Navs the model enumerates.  Area i is a horizontal square around    *)
(* one of the four lattice points ("slots"); a layout says which slot,     *)
(* which height and which half-width each area has:                        *)
(*   row     areas side by side, each in a slot of its own;                *)
(*   overlap area 2 is a larger square around area 1, at the same height;  *)
(*   floors  area 2 lies above area 1.                                     *)
(* Connections are any set of at most MaxConnections directed pairs of     *)
(* distinct areas; at most one area has the crouch flag.                   *)
(***************************************************************************)
Layouts == {"row", "overlap", "floors"}

SlotPosition(slot, z) == Position(24 * (slot % 2), 32 * ((slot \div 2) % 2), z)

FloorHeight == 64

AreaSlot(layout, id) ==
    IF layout = "row" THEN id - 1
    ELSE IF id <= 2 THEN 0 ELSE id - 2

AreaHeight(layout, id) ==
    IF layout = "floors" /\ id = 2 THEN FloorHeight ELSE 4 * FloorHeight * (AreaSlot(layout, id) \div 4)

AreaHalfWidth(layout, id) == IF layout = "overlap" /\ id = 2 THEN 8 ELSE 4

AreaCorners(layout, id) ==
    LET c == SlotPosition(AreaSlot(layout, id), AreaHeight(layout, id))
        h == AreaHalfWidth(layout, id)
    IN  <<Position(c.x - h, c.y - h, c.z), Position(c.x + h, c.y - h, c.z),
          Position(c.x + h, c.y + h, c.z), Position(c.x - h, c.y + h, c.z)>>

RECURSIVE SetToSeq(_)
SetToSeq(set) ==
    IF set = {} THEN <<>>
    ELSE LET least == CHOOSE a \in set : \A b \in set : a <= b
         IN  <<least>> \o SetToSeq(set \ {least})

ConnectionSets(n) ==
    {c \in SUBSET {e \in (1..n) \X (1..n) : e[1] # e[2]} : Cardinality(c) <= MaxConnections}

NavAreas(layout, n, connection_set, crouching) ==
    [id \in 1..n |->
        NavAreaNew(id, IF id \in crouching THEN CROUCHING_ATTRIBUTE_FLAG ELSE 0,
                   AreaCorners(layout, id),
                   SetToSeq({e[2] : e \in {c \in connection_set : c[1] = id}}))]

\* The positions the model passes as AreaIdent::Pos and as spawn points:
\* the lattice points on the ground and the first of them one floor up.
Positions == {SlotPosition(slot, 0) : slot \in 0..3} \cup {SlotPosition(0, FloorHeight), SlotPosition(3, FloorHeight)}

\* The endpoints of find_path calls: the ids of the Nav and the positions.
Idents == {IdentId(id) : id \in DOMAIN nav_areas} \cup {IdentPos(pos) : pos \in Positions}

\* The spawn points: in area 1, in another area, outside every area, and
\* above area 1.
SpawnPositions == {SlotPosition(0, 0), SlotPosition(1, 0), SlotPosition(3, 0), SlotPosition(0, FloorHeight)}

SpawnLists(n) == UNION {[1..k -> SpawnPositions] : k \in 0..n}

SpawnsInputs ==
    {sp \in [CT : SpawnLists(MaxSpawns), T : SpawnLists(MaxSpawns)] : Len(sp.CT) + Len(sp.T) <= MaxSpawns}

NoSpawns == [CT |-> <<>>, T |-> <<>>]

NavCallIdle ==
    /\ nav_call = "none"
    /\ path_start = NoIdent
    /\ path_end = NoIdent
    /\ start_area = 0
    /\ end_area = 0
    /\ path_result = NoPathResult
    /\ spawns = NoSpawns
    /\ distances = NoSpawns

\* No Nav is in use.
NavIdle ==
    /\ nav_areas = <<>>
    /\ nav_graph = <<>>
    /\ NavCallIdle

\* The Navs with at most max_crouching areas that require crouching.
NavInitWith(max_crouching) ==
    /\ \E layout \in Layouts, n \in 0..NavNumAreas :
         \E connection_set \in ConnectionSets(n), crouching \in {c \in SUBSET (1..n) : Cardinality(c) <= max_crouching} :
            /\ nav_areas = NavAreas(layout, n, connection_set, crouching)
            /\ nav_graph = NavNew(NavAreas(layout, n, connection_set, crouching))
    /\ NavCallIdle

NavInit == NavInitWith(1)

\* For the spawn distances, whose computation repeats find_path for every
\* area and spawn point: the Navs without a crouch area.
DistancesInit == NavInitWith(0)

\* One call of Nav::find_path.
FindPath ==
    /\ nav_call = "none"
    /\ \E start \in Idents, finish \in Idents :
         /\ path_start' = start
         /\ path_end' = finish
         /\ IF ResolveArea(start) = {} \/ ResolveArea(finish) = {}
            THEN /\ start_area' = 0
                 /\ end_area' = 0
                 /\ path_result' = PathPanic
            ELSE \E a \in ResolveArea(start), b \in ResolveArea(finish) :
                    /\ start_area' = a
                    /\ end_area' = b
                    /\ path_result' \in find_path_between(start, finish, a, b)
    /\ nav_call' = "find_path"
    /\ UNCHANGED <<nav_areas, nav_graph, spawns, distances>>
    /\ UNCHANGED notNavVars

\* One call of get_distances_from_spawns.
GetDistancesFromSpawns ==
    /\ nav_call = "none"
    /\ \E sp \in SpawnsInputs :
         /\ spawns' = sp
         /\ \E ct_distances \in team_distances(sp.CT), t_distances \in team_distances(sp.T) :
              distances' = [CT |-> ct_distances, T |-> t_distances]
    /\ nav_call' = "get_distances_from_spawns"
    /\ UNCHANGED <<nav_areas, nav_graph, path_start, path_end, start_area, end_area, path_result>>
    /\ UNCHANGED notNavVars

NavNext == FindPath

DistancesNext == GetDistancesFromSpawns

(***************************************************************************)
(* collisions.rs: read_tri_file.                                           *)
(*                                                                         *)
(* A byte is a number; an f32 is its bit pattern, the 32-bit word that     *)
(* from_ne_bytes assembles (on a little-endian target); a Triangle read    *)
(* from the file has these words as coordinates.  File::read may return    *)
(* any number of bytes from 1 to the room in the buffer while bytes are    *)
(* left, and 0 only at the end of the file.                                *)
(***************************************************************************)
CHUNK_SIZE == BUFFER_SIZE * 9 * 4

Triangle(p1, p2, p3) == [p1 |-> p1, p2 |-> p2, p3 |-> p3]

f32_from_ne_bytes(chunk) == chunk[1] + 256 * chunk[2] + 65536 * chunk[3] + 16777216 * chunk[4]

\* The loop body for one triangle: values[i] from slice.chunks_exact(4)
TriangleFromSlice(slice) ==
    LET values == [i \in 1..9 |-> f32_from_ne_bytes(SubSeq(slice, 4 * (i - 1) + 1, 4 * i))]
    IN  Triangle(Position(values[1], values[2], values[3]),
                 Position(values[4], values[5], values[6]),
                 Position(values[7], values[8], values[9]))

\* The triangles the loop pushes for a buffer holding n bytes of a read.
TrianglesOfBuffer(buf, n) ==
    LET num_complete_triangles == n \div 36
    IN  [i \in 1..num_complete_triangles |-> TriangleFromSlice(SubSeq(buf, 36 * (i - 1) + 1, 36 * i))]

\* The files of the model: byte k of a file is k itself.
TriFiles == {[k \in 1..n |-> k - 1] : n \in 0..MaxFileLen}

Min(a, b) == IF a <= b THEN a ELSE b

Max(a, b) == IF a >= b THEN a ELSE b

TriInit ==
    /\ file_bytes \in TriFiles
    /\ file_position = 0
    /\ buffer = <<>>
    /\ read_triangles = <<>>
    /\ read_pc = "loop"

\* read_tri_file is not running.
TriIdle ==
    /\ file_bytes = <<>>
    /\ file_position = 0
    /\ buffer = <<>>
    /\ read_triangles = <<>>
    /\ read_pc = "done"

\* One iteration of the loop in which read returns n > 0 bytes.
ReadChunk ==
    /\ read_pc = "loop"
    /\ file_position < Len(file_bytes)
    /\ \E n \in 1..Min(Len(file_bytes) - file_position, CHUNK_SIZE) :
         /\ buffer' = SubSeq(file_bytes, file_position + 1, file_position + n)
         /\ file_position' = file_position + n
         /\ read_triangles' = read_triangles \o TrianglesOfBuffer(SubSeq(file_bytes, file_position + 1, file_position + n), n)
    /\ UNCHANGED <<file_bytes, read_pc>>
    /\ UNCHANGED notTriVars

\* The iteration in which read returns 0: the end of the file.
ReadEnd ==
    /\ read_pc = "loop"
    /\ file_position = Len(file_bytes)
    /\ read_pc' = "done"
    /\ UNCHANGED <<file_bytes, file_position, buffer, read_triangles>>
    /\ UNCHANGED notTriVars

TriNext == ReadChunk \/ ReadEnd

(***************************************************************************)
(* collisions.rs: Aabb, build_bvh and the segment test.                    *)
(*                                                                         *)
(* The triangles of the model have integer vertices and edges whose triple *)
(* product with a coordinate axis is a power of two, and the segments      *)
(* tested are parallel to a coordinate axis: the normalized direction is   *)
(* then a unit vector of integers and every u, v and t the code forms is   *)
(* a dyadic ratio that f64 holds exactly.  A ratio is kept as numerator    *)
(* and positive denominator.  Against such values the tolerance 1e-6 acts  *)
(* as 0: |a| < 1e-6 is a = 0 and t > 1e-6 is t > 0.                        *)
(***************************************************************************)
PositionSub(a, b) == Position(a.x - b.x, a.y - b.y, a.z - b.z)

dot(a, b) == a.x * b.x + a.y * b.y + a.z * b.z

cross(a, b) == Position(a.y * b.z - a.z * b.y, a.z * b.x - a.x * b.z, a.x * b.y - a.y * b.x)

\* Position::length, for the vectors whose length is an integer
length(v) == CHOOSE r \in 0..(Abs(v.x) + Abs(v.y) + Abs(v.z)) : r * r = dot(v, v)

\* a / b for a multiple a of b # 0
Quotient(a, b) == IF b > 0 THEN a \div b ELSE (0 - a) \div (0 - b)

\* Position::normalize
normalize(v) ==
    IF length(v) = 0 THEN Position(0, 0, 0)
    ELSE Position(Quotient(v.x, length(v)), Quotient(v.y, length(v)), Quotient(v.z, length(v)))

\* Triangle::get_centroid, times 3: the code divides the sums by 3.0 and
\* only compares the quotients.
get_centroid(triangle) ==
    Position(triangle.p1.x + triangle.p2.x + triangle.p3.x,
             triangle.p1.y + triangle.p2.y + triangle.p3.y,
             triangle.p1.z + triangle.p2.z + triangle.p3.z)

Aabb(min_point, max_point) == [min_point |-> min_point, max_point |-> max_point]

\* A slip in from_triangle: p3 is left out.
from_triangle_without_p3(triangle) ==
    Aabb(Position(Min(triangle.p1.x, triangle.p2.x), Min(triangle.p1.y, triangle.p2.y), Min(triangle.p1.z, triangle.p2.z)),
         Position(Max(triangle.p1.x, triangle.p2.x), Max(triangle.p1.y, triangle.p2.y), Max(triangle.p1.z, triangle.p2.z)))

\* Aabb::from_triangle
from_triangle(triangle) ==
    Aabb(Position(Min(Min(triangle.p1.x, triangle.p2.x), triangle.p3.x),
                  Min(Min(triangle.p1.y, triangle.p2.y), triangle.p3.y),
                  Min(Min(triangle.p1.z, triangle.p2.z), triangle.p3.z)),
         Position(Max(Max(triangle.p1.x, triangle.p2.x), triangle.p3.x),
                  Max(Max(triangle.p1.y, triangle.p2.y), triangle.p3.y),
                  Max(Max(triangle.p1.z, triangle.p2.z), triangle.p3.z)))

\* check_axis: (t_min, t_max) of one axis; direction is 0, 1 or -1
check_axis(origin, direction, min_val, max_val) ==
    IF direction = 0
    THEN IF origin < min_val \/ origin > max_val
         THEN <<F64_INFINITY, 0 - F64_INFINITY>>
         ELSE <<0 - F64_INFINITY, F64_INFINITY>>
    ELSE LET t1 == Quotient(min_val - origin, direction)
             t2 == Quotient(max_val - origin, direction)
         IN  <<Min(t1, t2), Max(t1, t2)>>

\* Aabb::intersects_ray
intersects_ray(aabb, ray_origin, ray_direction) ==
    LET tx == check_axis(ray_origin.x, ray_direction.x, aabb.min_point.x, aabb.max_point.x)
        ty == check_axis(ray_origin.y, ray_direction.y, aabb.min_point.y, aabb.max_point.y)
        tz == check_axis(ray_origin.z, ray_direction.z, aabb.min_point.z, aabb.max_point.z)
        t_enter == Max(Max(tx[1], ty[1]), tz[1])
        t_exit == Min(Min(tx[2], ty[2]), tz[2])
    IN  t_enter <= t_exit /\ t_exit >= 0

BVHNode(aabb, triangle, left, right) == [aabb |-> aabb, triangle |-> triangle, left |-> left, right |-> right]

\* The axes the comparison of the spreads can choose.  The code compares
\* the spreads of the rounded quotients sum / 3.0, so that two spreads that
\* are equal in exact arithmetic can compare either way: every axis that
\* the exact comparison allows with its ties decided either way is possible.
SplitAxes(triangles) ==
    LET centroids == [i \in 1..Len(triangles) |-> get_centroid(triangles[i])]
        Least(values) == CHOOSE a \in values \cup {F64_INFINITY} : \A b \in values \cup {F64_INFINITY} : a <= b
        Greatest(values) == CHOOSE a \in values \cup {0 - F64_INFINITY} : \A b \in values \cup {0 - F64_INFINITY} : a >= b
        x_spread == Greatest({c.x : c \in Range(centroids)}) - Least({c.x : c \in Range(centroids)})
        y_spread == Greatest({c.y : c \in Range(centroids)}) - Least({c.y : c \in Range(centroids)})
        z_spread == Greatest({c.z : c \in Range(centroids)}) - Least({c.z : c \in Range(centroids)})
    IN  {axis \in 0..2 :
            \/ axis = 0 /\ x_spread >= y_spread /\ x_spread >= z_spread
            \/ axis = 1 /\ (y_spread >= x_spread \/ z_spread >= x_spread) /\ y_spread >= z_spread
            \/ axis = 2 /\ (y_spread >= x_spread \/ z_spread >= x_spread) /\ z_spread >= y_spread}

\* The coordinate of the centroid that sort_by's closure compares.
Coord(triangle, axis) ==
    IF axis = 0 THEN get_centroid(triangle).x
    ELSE IF axis = 1 THEN get_centroid(triangle).y
    ELSE get_centroid(triangle).z

\* Vec::sort_by, a stable sort, on the centroid coordinate of the axis.
RECURSIVE sort_by(_, _)
sort_by(triangles, axis) ==
    IF triangles = <<>> THEN <<>>
    ELSE LET front == sort_by(SubSeq(triangles, 1, Len(triangles) - 1), axis)
             last == triangles[Len(triangles)]
             before == Cardinality({i \in 1..Len(front) : Coord(front[i], axis) <= Coord(last, axis)})
         IN  SubSeq(front, 1, before) \o <<last>> \o SubSeq(front, before + 1, Len(front))

\* The leaf build_bvh returns for a single triangle.
LeafNode(triangle) == BVHNode(from_triangle(triangle), <<triangle>>, <<>>, <<>>)

\* The inner node build_bvh returns, with the encompassing AABB.
InnerNode(left, right) ==
    BVHNode(Aabb(Position(Min(left.aabb.min_point.x, right.aabb.min_point.x),
                          Min(left.aabb.min_point.y, right.aabb.min_point.y),
                          Min(left.aabb.min_point.z, right.aabb.min_point.z)),
                 Position(Max(left.aabb.max_point.x, right.aabb.max_point.x),
                          Max(left.aabb.max_point.y, right.aabb.max_point.y),
                          Max(left.aabb.max_point.z, right.aabb.max_point.z))),
            <<>>, <<left>>, <<right>>)

\* CollisionChecker::ray_triangle_intersection: <<>> for None, and for
\* Some(t) the pair <<n, d>> with t = n / d and d > 0.
ray_triangle_intersection(ray_origin, ray_direction, triangle) ==
    LET edge1 == PositionSub(triangle.p2, triangle.p1)
        edge2 == PositionSub(triangle.p3, triangle.p1)
        h == cross(ray_direction, edge2)
        a == dot(edge1, h)
        sign == IF a > 0 THEN 1 ELSE 0 - 1
        s == PositionSub(ray_origin, triangle.p1)
        \* u = u_n / |a|, v = v_n / |a|, t = t_n / |a|
        u_n == sign * dot(s, h)
        q == cross(s, edge1)
        v_n == sign * dot(ray_direction, q)
        t_n == sign * dot(edge2, q)
    IN  IF a = 0 THEN <<>>
        ELSE IF ~(0 <= u_n /\ u_n <= Abs(a)) THEN <<>>
        ELSE IF v_n < 0 \/ u_n + v_n > Abs(a) THEN <<>>
        ELSE IF t_n > 0 THEN <<t_n, Abs(a)>>
        ELSE <<>>

\* CollisionChecker::traverse_bvh
RECURSIVE traverse_bvh(_, _, _, _)
traverse_bvh(node, ray_origin, ray_direction, max_distance) ==
    IF ~intersects_ray(node.aabb, ray_origin, ray_direction) THEN FALSE
    ELSE IF node.triangle # <<>>
    THEN LET t == ray_triangle_intersection(ray_origin, ray_direction, node.triangle[1])
         IN  IF t # <<>> THEN t[1] <= max_distance * t[2] ELSE FALSE
    ELSE LET left_hit == traverse_bvh(node.left[1], ray_origin, ray_direction, max_distance)
             right_hit == traverse_bvh(node.right[1], ray_origin, ray_direction, max_distance)
         IN  left_hit \/ right_hit

\* CollisionChecker::connection_unobstructed on the checker with this root
connection_unobstructed(root, start, end) ==
    LET direction == PositionSub(end, start)
        distance == length(direction)
    IN  IF distance = 0 THEN TRUE
        ELSE ~traverse_bvh(root, start, normalize(direction), distance)

(***************************************************************************)
(* build_bvh as a machine with its call stack.  A frame is one call: its   *)
(* argument, where it stands ("enter", in the call for "left", in the call *)
(* for "right", or about to "combine"), and its locals.  A call that would *)
(* need more than StackLimit frames overflows the stack, which ends the    *)
(* process.                                                                *)
(***************************************************************************)
Frame(triangles, step, triangles_sorted, left, right) == [triangles |-> triangles, step |-> step, triangles_sorted |-> triangles_sorted, left |-> left, right |-> right]

EnterFrame(triangles) == Frame(triangles, "enter", <<>>, <<>>, <<>>)

Top == bvh_stack[Len(bvh_stack)]

Callers == SubSeq(bvh_stack, 1, Len(bvh_stack) - 1)

\* The call on top of the stack returns node to its caller.
Return(node) ==
    IF Len(bvh_stack) = 1
    THEN /\ bvh_stack' = <<>>
         /\ bvh_root' = <<node>>
         /\ bvh_pc' = "built"
    ELSE LET caller == bvh_stack[Len(bvh_stack) - 1]
             rest == SubSeq(bvh_stack, 1, Len(bvh_stack) - 2)
             mid == Len(caller.triangles_sorted) \div 2
         IN  /\ bvh_stack' =
                   IF caller.step = "left"
                   THEN rest \o <<[caller EXCEPT !.left = <<node>>, !.step = "right"],
                                  EnterFrame(SubSeq(caller.triangles_sorted, mid + 1, Len(caller.triangles_sorted)))>>
                   ELSE rest \o <<[caller EXCEPT !.right = <<node>>, !.step = "combine"]>>
             /\ UNCHANGED <<bvh_root, bvh_pc>>

\* build_bvh on one triangle: the leaf.
BuildLeaf ==
    /\ bvh_pc = "build"
    /\ Top.step = "enter"
    /\ Len(Top.triangles) = 1
    /\ Return(LeafNode(Top.triangles[1]))
    /\ UNCHANGED <<bvh_triangles, ray_start, ray_end, unobstructed>>
    /\ UNCHANGED notBvhVars

\* build_bvh on any other number of triangles, up to the call for the left
\* half.
BuildSplit ==
    /\ bvh_pc = "build"
    /\ Top.step = "enter"
    /\ Len(Top.triangles) # 1
    /\ Len(bvh_stack) < StackLimit
    /\ \E axis \in SplitAxes(Top.triangles) :
         LET triangles_sorted == sort_by(Top.triangles, axis)
             mid == Len(triangles_sorted) \div 2
         IN  bvh_stack' = Callers \o <<[Top EXCEPT !.step = "left", !.triangles_sorted = triangles_sorted],
                                       EnterFrame(SubSeq(triangles_sorted, 1, mid))>>
    /\ UNCHANGED <<bvh_triangles, bvh_root, bvh_pc, ray_start, ray_end, unobstructed>>
    /\ UNCHANGED notBvhVars

\* The same call when the stack has no room for it.
BuildStackOverflow ==
    /\ bvh_pc = "build"
    /\ Top.step = "enter"
    /\ Len(Top.triangles) # 1
    /\ Len(bvh_stack) = StackLimit
    /\ bvh_pc' = "stack_overflow"
    /\ UNCHANGED <<bvh_triangles, bvh_stack, bvh_root, ray_start, ray_end, unobstructed>>
    /\ UNCHANGED notBvhVars

\* build_bvh after both calls: the inner node.
BuildCombine ==
    /\ bvh_pc = "build"
    /\ Top.step = "combine"
    /\ Return(InnerNode(Top.left[1], Top.right[1]))
    /\ UNCHANGED <<bvh_triangles, ray_start, ray_end, unobstructed>>
    /\ UNCHANGED notBvhVars

(***************************************************************************)
(* The triangle soups and the segments of the model.  A triangle is a      *)
(* right triangle with legs of length 4 in a plane x = c or y = c.         *)
(***************************************************************************)
WallX(c, y, z) == Triangle(Position(c, y, z), Position(c, y + 4, z), Position(c, y, z + 4))

WallY(c, x, z) == Triangle(Position(x, c, z), Position(x + 4, c, z), Position(x, c, z + 4))

TrianglePalette == {WallX(0, 0 - 1, 0 - 1), WallX(8, 0 - 1, 0 - 1), WallX(4, 7, 0 - 1), WallY(4, 3, 0 - 1)}

TriangleSoups == UNION {[1..n -> TrianglePalette] : n \in 0..MaxTris}

QueryPoints == {Position(0 - 4, 0, 0), Position(0, 0, 0), Position(4, 0, 0), Position(12, 0, 0), Position(4, 8, 0), Position(4, 8, 4)}

\* The segment from a to b is parallel to a coordinate axis (or a = b).
AxisParallel(a, b) ==
    Cardinality({i \in 1..3 : <<a.x, a.y, a.z>>[i] # <<b.x, b.y, b.z>>[i]}) <= 1

BvhInit ==
    /\ bvh_triangles \in TriangleSoups
    /\ bvh_stack = <<EnterFrame(bvh_triangles)>>
    /\ bvh_root = <<>>
    /\ bvh_pc = "build"
    /\ ray_start = Position(0, 0, 0)
    /\ ray_end = Position(0, 0, 0)
    /\ unobstructed = TRUE

\* No collision checker is in use.
BvhIdle ==
    /\ bvh_triangles = <<>>
    /\ bvh_stack = <<>>
    /\ bvh_root = <<>>
    /\ bvh_pc = "idle"
    /\ ray_start = Position(0, 0, 0)
    /\ ray_end = Position(0, 0, 0)
    /\ unobstructed = TRUE

\* One call of connection_unobstructed on the checker that was built.
ConnectionUnobstructed ==
    /\ bvh_pc = "built"
    /\ \E start \in QueryPoints, end \in QueryPoints :
         /\ AxisParallel(start, end)
         /\ ray_start' = start
         /\ ray_end' = end
         /\ unobstructed' = connection_unobstructed(bvh_root[1], start, end)
    /\ bvh_pc' = "queried"
    /\ UNCHANGED <<bvh_triangles, bvh_stack, bvh_root>>
    /\ UNCHANGED notBvhVars

BvhNext == BuildLeaf \/ BuildSplit \/ BuildStackOverflow \/ BuildCombine \/ ConnectionUnobstructed

(***************************************************************************)
(* position.rs: can_jump_to.                                               *)
(*                                                                         *)
(* Positions have integer coordinates and an integer 2D distance h.  The   *)
(* code's values are kept as exact ratios:                                 *)
(*   h_distance after the foothold correction, in tenths:  h10             *)
(*   t = h10 / (10 * RUNNING_SPEED)  or  jump_speed() / GRAVITY            *)
(*   jump_speed()^2 = 2 * GRAVITY * JUMP_HEIGHT = 16 * 5583                *)
(* and comparisons with jump_speed() are made on the squares.              *)
(***************************************************************************)
\* a / b <= c / d for positive b, d and non-negative a, c, without forming
\* the products a * d and c * b.
RECURSIVE FracLeq(_, _, _, _)
FracLeq(a, b, c, d) ==
    IF a \div b < c \div d THEN TRUE
    ELSE IF a \div b > c \div d THEN FALSE
    ELSE IF a % b = 0 THEN TRUE
    ELSE IF c % d = 0 THEN FALSE
    ELSE FracLeq(d, c % d, b, a % b)

\* Position::can_jump_to.
\*   t = max(h_distance / RUNNING_SPEED, jump_speed() / GRAVITY): the second
\*     iff h10^2 / (2 * RUNNING_SPEED^2) <= JUMP_HEIGHT (hundredths) / GRAVITY,
\*     and then jump_speed() * t - 0.5 * GRAVITY * t * t = JUMP_HEIGHT;
\*   otherwise z_at_dest >= other.z iff jump_speed() >= p / q, with
\*     p = RUNNING_SPEED^2 * (other.z - self.z - gain + 0.5 * GRAVITY * t * t)
\*     q = RUNNING_SPEED^2 * t,
\*     that is iff p <= 0 or (p / (4 * q))^2 <= 5583.
can_jump_to(self, other) ==
    LET h_distance == distance_2d(self, other) \div DistanceUnit
        foothold_width_correction10 == (PLAYER_WIDTH * 115) \div 10
        h10 == Max(0, 10 * h_distance - foothold_width_correction10)
        at_apex == FracLeq(h10 * h10, 2 * RUNNING_SPEED * RUNNING_SPEED, JUMP_HEIGHT, GRAVITY)
        p == RUNNING_SPEED * RUNNING_SPEED * (other.z - self.z) - (RUNNING_SPEED * RUNNING_SPEED * CROUCH_JUMP_HEIGHT_GAIN) \div 100 + (GRAVITY \div 200) * h10 * h10
        q == (RUNNING_SPEED \div 10) * h10
    IN  IF h_distance <= 0 THEN TRUE
        ELSE IF at_apex THEN 100 * self.z + JUMP_HEIGHT + CROUCH_JUMP_HEIGHT_GAIN >= 100 * other.z
        ELSE IF p <= 0 THEN TRUE
        ELSE FracLeq(p, 4 * q, JUMP_HEIGHT * 4 * q, p)

\* The jumps of the model: from the origin or from a point 10 above it,
\* along the x axis, to heights around the apex and far from it.
JumpStarts == {Position(0, 0, 0), Position(0, 0, 10)}

JumpHeights == {0 - 100, 0, 50, 60, 66, 67, 70, 76, 77, 100}

JumpTargets == {Position(20 * k, 0, z) : k \in 0..MaxJumpSteps, z \in JumpHeights}

JumpInit ==
    /\ jump_from \in JumpStarts
    /\ jump_to \in JumpTargets
    /\ jump_result = FALSE
    /\ jump_pc = "call"

\* No call of can_jump_to is made.
JumpIdle ==
    /\ jump_from = Position(0, 0, 0)
    /\ jump_to = Position(0, 0, 0)
    /\ jump_result = FALSE
    /\ jump_pc = "idle"

\* The call self.can_jump_to(other).
CanJumpTo ==
    /\ jump_pc = "call"
    /\ jump_result' = can_jump_to(jump_from, jump_to)
    /\ jump_pc' = "done"
    /\ UNCHANGED <<jump_from, jump_to>>
    /\ UNCHANGED notJumpVars

JumpNext == CanJumpTo

(***************************************************************************)
(* The three ways a NavArea is made (nav.rs): NavArea::new, the visitor of  *)
(* Deserialize for NavArea, and From<NewNavArea> after NewNavArea::new in   *)
(* the regularization.                                                      *)
(***************************************************************************)
\* The Option of the "centroid" key of the JSON object: None and Some(p).
Absent == <<>>

Present(p) == <<p>>

NoArea == [area_id |-> 0]

\* visit_map: a "centroid" key is taken as it is, centroid(&corners) only
\* when the key is missing.
NavAreaDeserialize(json) ==
    [area_id |-> json.area_id, dynamic_attribute_flags |-> json.dynamic_attribute_flags,
     corners |-> json.corners, connections |-> json.connections,
     centroid |-> IF json.centroid = Absent THEN centroid(json.corners) ELSE json.centroid[1]]

\* NewNavArea::new: area_id 0, centroid(&corners).
NewNavAreaNew(corners, dynamic_attribute_flags, connections) ==
    [area_id |-> 0, dynamic_attribute_flags |-> dynamic_attribute_flags,
     corners |-> corners, connections |-> connections,
     centroid |-> centroid(corners)]

\* From<NewNavArea> for NavArea: every field copied, the centroid too.
NavAreaFrom(item) ==
    [area_id |-> item.area_id, dynamic_attribute_flags |-> item.dynamic_attribute_flags,
     corners |-> item.corners, connections |-> item.connections,
     centroid |-> item.centroid]

\* Corner rings: squares of half width 4 and 8 around the lattice points on
\* two floors, and the empty ring.
CornerRings ==
    {<<>>} \cup
    {<<Position(c.x - h, c.y - h, c.z), Position(c.x + h, c.y - h, c.z), Position(c.x + h, c.y + h, c.z), Position(c.x - h, c.y + h, c.z)>> :
        c \in {SlotPosition(slot, z) : slot \in 0..3, z \in {0, FloorHeight}}, h \in {4, 8}}

\* Values of the "centroid" key of a JSON object.
JsonCentroids == {Absent, Present(Position(0, 0, 0)), Present(Position(24, 32, FloorHeight)), Present(Position(1, 1, 1))}

JsonAreas ==
    [area_id : {1}, dynamic_attribute_flags : {0}, corners : CornerRings,
     connections : {<<>>}, centroid : JsonCentroids]

AreaInit ==
    /\ area_call \in {"new", "deserialize", "regularize"}
    /\ area_json \in JsonAreas
    /\ area_call # "deserialize" => area_json.centroid = Absent
    /\ nav_area = NoArea
    /\ area_pc = "call"

\* No NavArea is made.
AreaIdle ==
    /\ area_call = "none"
    /\ area_json = NoArea
    /\ nav_area = NoArea
    /\ area_pc = "idle"

\* NavArea::new(area_id, flags, corners, connections, ..).
NavAreaNewCall ==
    /\ area_pc = "call" /\ area_call = "new"
    /\ nav_area' = NavAreaNew(area_json.area_id, area_json.dynamic_attribute_flags, area_json.corners, area_json.connections)
    /\ area_pc' = "done"
    /\ UNCHANGED <<area_json, area_call>>
    /\ UNCHANGED notAreaVars

\* serde's deserialization of one area object.
NavAreaDeserializeCall ==
    /\ area_pc = "call" /\ area_call = "deserialize"
    /\ nav_area' = NavAreaDeserialize(area_json)
    /\ area_pc' = "done"
    /\ UNCHANGED <<area_json, area_call>>
    /\ UNCHANGED notAreaVars

\* The regularization: NewNavArea::new(..) and later NavArea::from(new_cell).
NavAreaRegularize ==
    /\ area_pc = "call" /\ area_call = "regularize"
    /\ nav_area' = NavAreaFrom(NewNavAreaNew(area_json.corners, area_json.dynamic_attribute_flags, area_json.connections))
    /\ area_pc' = "done"
    /\ UNCHANGED <<area_json, area_call>>
    /\ UNCHANGED notAreaVars

AreaNext == NavAreaNewCall \/ NavAreaDeserializeCall \/ NavAreaRegularize

(***************************************************************************)
(* main.rs: the process-maps command.  A path is kept as the arguments of  *)
(* the format! that makes it: directory, map name, postfix and extension.  *)
(***************************************************************************)
MapNames == {"a", "b"}

Path(dir, map_name, postfix, ext) == [dir |-> dir, map_name |-> map_name, postfix |-> postfix, ext |-> ext]

\* expected_files: the five paths, in the order they are hashed in.
expected_files(map_name) ==
    <<Path("maps", map_name, "", "png"),
      Path("tris", map_name, "", "tris"),
      Path("tris", map_name, "-clippings", "tris"),
      Path("nav", map_name, "", "json"),
      Path("spawns", map_name, "", "json")>>

\* hashes/{map_name}.txt
hash_path(map_name) == Path("hashes", map_name, "", "txt")

\* Path::exists
exists(files, path) == path \in DOMAIN files

\* collect_valid_maps: for every entry of maps/, the name before the last
\* '.', kept if all expected files exist.
collect_valid_maps(files) ==
    {path.map_name : path \in {q \in DOMAIN files : q.dir = "maps"}} \cap
    {map_name \in MapNames :
        \A i \in 1..Len(expected_files(map_name)) : exists(files, expected_files(map_name)[i])}

RECURSIVE Concat(_)
Concat(seqs) == IF seqs = <<>> THEN <<>> ELSE Head(seqs) \o Concat(Tail(seqs))

\* Option<String> of compute_hash and load_existing_hash: None and Some(s).
NoHash == <<>>

SomeHash(hash) == <<hash>>

\* Sha256 of the bytes fed to the hasher, formatted {:x}: a string that is
\* different for different bytes and is not the bytes themselves.
Sha256(bytes) == <<256>> \o bytes

\* compute_hash: the hash of the contents of the expected files fed one
\* after the other, None if one cannot be opened.
compute_hash(files, map_name) ==
    LET expected == expected_files(map_name)
    IN  IF \E i \in 1..Len(expected) : ~exists(files, expected[i]) THEN NoHash
        ELSE SomeHash(Sha256(Concat([i \in 1..Len(expected) |-> files[expected[i]]])))

\* load_existing_hash: read_to_string(..).ok(); the file's contents are the
\* hash that was saved.
load_existing_hash(files, map_name) ==
    IF exists(files, hash_path(map_name)) THEN SomeHash(files[hash_path(map_name)]) ELSE NoHash

\* save_hash: File::create and write_all, nothing if the file cannot be
\* created (no directory hashes/).
save_hash(files, hashes_dir, map_name, hash) ==
    IF hashes_dir
    THEN [path \in DOMAIN files \cup {hash_path(map_name)} |->
              IF path = hash_path(map_name) THEN hash ELSE files[path]]
    ELSE files

\* process_maps, the maps kept by the filter_map.
process_maps(files, maps) ==
    {map_name \in maps :
        /\ compute_hash(files, map_name) # NoHash
        /\ load_existing_hash(files, map_name) # compute_hash(files, map_name)}

RECURSIVE save_hashes(_, _, _)
save_hashes(files, hashes_dir, maps) ==
    IF maps = {} THEN files
    ELSE LET map_name == CHOOSE m \in maps : TRUE
         IN  save_hashes(save_hash(files, hashes_dir, map_name, compute_hash(files, map_name)[1]),
                         hashes_dir, maps \ {map_name})

\* The input files a directory of the model may hold for a map: the five
\* expected ones and the two of the directory tri/.
InputPaths(map_name) ==
    Range(expected_files(map_name)) \cup
    {Path("tri", map_name, "", "tri"), Path("tri", map_name, "-clippings", "tri")}

\* Map "b" has no file, its picture only, or all expected files.
FilesOfB ==
    {{}, {Path("maps", "b", "", "png")}, Range(expected_files("b"))}

\* What nav/a.json may hold; every other input file holds the byte 1.
NavContents == {<<1>>, <<2>>}

\* hashes/a.txt as an earlier run left it: the hash of the five files with
\* nav/a.json = <<1>>.
StoredHashOfA == Sha256(<<1, 1, 1, 1, 1>>)

FileSystem(paths, nav_contents) ==
    [path \in paths |->
        IF path.dir = "hashes" THEN StoredHashOfA
        ELSE IF path = Path("nav", "a", "", "json") THEN nav_contents
        ELSE <<1>>]

FileSystems ==
    {FileSystem(paths \cup b_paths \cup stored, nav_contents) :
        paths \in SUBSET InputPaths("a"), b_paths \in FilesOfB,
        stored \in {{}, {hash_path("a")}}, nav_contents \in NavContents}

MapsInit ==
    /\ fs_hashes_dir \in BOOLEAN
    /\ fs_files \in FileSystems
    /\ exists(fs_files, hash_path("a")) => fs_hashes_dir
    /\ valid_maps = {}
    /\ maps_to_update = {}
    /\ maps_pc = "collect"

\* process-maps is not run.
MapsIdle ==
    /\ fs_hashes_dir = FALSE
    /\ fs_files = <<>>
    /\ valid_maps = {}
    /\ maps_to_update = {}
    /\ maps_pc = "idle"

\* let valid_maps = collect_valid_maps();
CollectValidMaps ==
    /\ maps_pc = "collect"
    /\ valid_maps' = collect_valid_maps(fs_files)
    /\ maps_pc' = "process"
    /\ UNCHANGED <<fs_files, fs_hashes_dir, maps_to_update>>
    /\ UNCHANGED notMapsVars

\* let maps_to_update = process_maps(valid_maps); the list is printed.
ProcessMaps ==
    /\ maps_pc = "process"
    /\ maps_to_update' = process_maps(fs_files, valid_maps)
    /\ fs_files' = save_hashes(fs_files, fs_hashes_dir, process_maps(fs_files, valid_maps))
    /\ maps_pc' = "done"
    /\ UNCHANGED <<fs_hashes_dir, valid_maps>>
    /\ UNCHANGED notMapsVars

MapsNext == CollectValidMaps \/ ProcessMaps

(***************************************************************************)
(* main.rs: the nav-analysis command, statement by statement, with         *)
(* get_visibility_cache (nav.rs) inlined.  What the statements compute is  *)
(* kept only for the visibility cache; the run can end at any statement by *)
(* a fatal error: the panic of an unwrap on an I/O error, or the process   *)
(* being killed.                                                           *)
(***************************************************************************)
CacheAreaIds == 1..2

\* iproduct!(&nav.areas, &nav.areas), in a fixed order.
CachePairs == <<<<1, 1>>, <<1, 2>>, <<2, 1>>, <<2, 2>>>>

NoCache == <<>>

\* Option of the cache file: None when it does not exist.
NoFile == <<>>

SomeFile(bytes) == <<bytes>>

\* bincode's serialize_into of the HashMap: the number of entries, then per
\* entry the two ids and the bool.
RECURSIVE serialize_entries(_, _)
serialize_entries(cache, pairs) ==
    IF pairs = <<>> THEN <<>>
    ELSE <<Head(pairs)[1], Head(pairs)[2], IF cache[Head(pairs)] THEN 1 ELSE 0>>
             \o serialize_entries(cache, Tail(pairs))

serialize_into(cache) == <<Len(CachePairs)>> \o serialize_entries(cache, CachePairs)

\* bincode's deserialize_from: Err on the end of the file before the
\* entries announced were read.
deserialize_from(bytes) ==
    IF Len(bytes) = 0 \/ Len(bytes) < 1 + 3 * bytes[1]
    THEN [ok |-> FALSE, value |-> NoCache]
    ELSE [ok |-> TRUE,
          value |-> [pair \in {<<bytes[3 * k - 1], bytes[3 * k]>> : k \in 1..bytes[1]} |->
                        \E k \in 1..bytes[1] :
                            /\ pair = <<bytes[3 * k - 1], bytes[3 * k]>>
                            /\ bytes[3 * k + 1] = 1]]

\* The values of areas_visible the model takes.
VisibilityResults ==
    {[pair \in Range(CachePairs) |-> TRUE],
     [pair \in Range(CachePairs) |-> pair[1] = pair[2]],
     [pair \in Range(CachePairs) |-> pair[1] <= pair[2]]}

\* The statements at which a fatal error can end the run; at "vis_cache" the
\* run ends only by the unwrap of deserialize_from.
FatalPoints == {"prepare", "vis_build", "vis_serialize", "rough", "save_rough", "fine", "save_fine"}

AnalysisInit ==
    /\ analysis_pc = "prepare"
    /\ analysis_run = 1
    /\ aborted_at = "none"
    /\ spreads_saved = {}
    /\ areas_visible_result \in VisibilityResults
    /\ vis_cache_file \in {NoFile, SomeFile(serialize_into(areas_visible_result))}
    /\ main_visibility_cache = NoCache

\* nav-analysis is not run.
AnalysisIdle ==
    /\ analysis_pc = "idle"
    /\ analysis_run = 0
    /\ aborted_at = "none"
    /\ spreads_saved = {}
    /\ areas_visible_result = NoCache
    /\ vis_cache_file = NoFile
    /\ main_visibility_cache = NoCache

\* Nav::from_json .. load_collision_checker.
Prepare ==
    /\ analysis_pc = "prepare"
    /\ analysis_pc' = "vis_cache"
    /\ UNCHANGED <<analysis_run, aborted_at, spreads_saved, vis_cache_file, areas_visible_result, main_visibility_cache>>
    /\ UNCHANGED notAnalysisVars

\* get_visibility_cache, cache_path.exists(): File::open(..).unwrap(),
\* deserialize_from(file).unwrap().
VisCacheLoad ==
    /\ analysis_pc = "vis_cache"
    /\ vis_cache_file # NoFile
    /\ LET loaded == deserialize_from(vis_cache_file[1])
       IN  IF loaded.ok
           THEN /\ main_visibility_cache' = loaded.value
                /\ analysis_pc' = "rough"
                /\ UNCHANGED aborted_at
           ELSE /\ analysis_pc' = "aborted"
                /\ aborted_at' = "vis_cache"
                /\ UNCHANGED main_visibility_cache
    /\ UNCHANGED <<analysis_run, spreads_saved, vis_cache_file, areas_visible_result>>
    /\ UNCHANGED notAnalysisVars

\* get_visibility_cache, no cache file: create_file_with_parents(cache_path).
VisCacheCreate ==
    /\ analysis_pc = "vis_cache"
    /\ vis_cache_file = NoFile
    /\ vis_cache_file' = SomeFile(<<>>)
    /\ analysis_pc' = "vis_build"
    /\ UNCHANGED <<analysis_run, aborted_at, spreads_saved, areas_visible_result, main_visibility_cache>>
    /\ UNCHANGED notAnalysisVars

\* get_visibility_cache: areas_visible for every pair, collected.
VisCacheBuild ==
    /\ analysis_pc = "vis_build"
    /\ main_visibility_cache' = areas_visible_result
    /\ analysis_pc' = "vis_serialize"
    /\ UNCHANGED <<analysis_run, aborted_at, spreads_saved, vis_cache_file, areas_visible_result>>
    /\ UNCHANGED notAnalysisVars

\* get_visibility_cache: serialize_into(&mut file, &visibility_cache).
VisCacheSerialize ==
    /\ analysis_pc = "vis_serialize"
    /\ vis_cache_file' = SomeFile(serialize_into(main_visibility_cache))
    /\ analysis_pc' = "rough"
    /\ UNCHANGED <<analysis_run, aborted_at, spreads_saved, areas_visible_result, main_visibility_cache>>
    /\ UNCHANGED notAnalysisVars

\* generate_spreads(.., SpreadStyle::Rough, ..)
GenerateRough ==
    /\ analysis_pc = "rough"
    /\ analysis_pc' = "save_rough"
    /\ UNCHANGED <<analysis_run, aborted_at, spreads_saved, vis_cache_file, areas_visible_result, main_visibility_cache>>
    /\ UNCHANGED notAnalysisVars

\* save_spreads_to_json(&rough_spreads, ..)
SaveRough ==
    /\ analysis_pc = "save_rough"
    /\ spreads_saved' = spreads_saved \cup {"Rough"}
    /\ analysis_pc' = "fine"
    /\ UNCHANGED <<analysis_run, aborted_at, vis_cache_file, areas_visible_result, main_visibility_cache>>
    /\ UNCHANGED notAnalysisVars

\* generate_spreads(.., SpreadStyle::Fine, ..)
GenerateFine ==
    /\ analysis_pc = "fine"
    /\ analysis_pc' = "save_fine"
    /\ UNCHANGED <<analysis_run, aborted_at, spreads_saved, vis_cache_file, areas_visible_result, main_visibility_cache>>
    /\ UNCHANGED notAnalysisVars

\* save_spreads_to_json(&fine_spreads, ..)
SaveFine ==
    /\ analysis_pc = "save_fine"
    /\ spreads_saved' = spreads_saved \cup {"Fine"}
    /\ analysis_pc' = "done"
    /\ UNCHANGED <<analysis_run, aborted_at, vis_cache_file, areas_visible_result, main_visibility_cache>>
    /\ UNCHANGED notAnalysisVars

\* The run ends by a fatal error.  During serialize_into the cache file
\* keeps the bytes written so far.
FatalError ==
    /\ analysis_pc \in FatalPoints
    /\ analysis_pc' = "aborted"
    /\ aborted_at' = analysis_pc
    /\ IF analysis_pc = "vis_serialize"
       THEN \E written \in 0..(Len(serialize_into(main_visibility_cache)) - 1) :
                vis_cache_file' = SomeFile(SubSeq(serialize_into(main_visibility_cache), 1, written))
       ELSE UNCHANGED vis_cache_file
    /\ UNCHANGED <<analysis_run, spreads_saved, areas_visible_result, main_visibility_cache>>
    /\ UNCHANGED notAnalysisVars

\* The command is run again in the same working directory.
Rerun ==
    /\ analysis_pc \in {"aborted", "done"}
    /\ analysis_run < MaxRuns
    /\ analysis_run' = analysis_run + 1
    /\ analysis_pc' = "prepare"
    /\ aborted_at' = "none"
    /\ spreads_saved' = {}
    /\ main_visibility_cache' = NoCache
    /\ UNCHANGED <<vis_cache_file, areas_visible_result>>
    /\ UNCHANGED notAnalysisVars

AnalysisNext ==
    \/ Prepare \/ VisCacheLoad \/ VisCacheCreate \/ VisCacheBuild \/ VisCacheSerialize
    \/ GenerateRough \/ SaveRough \/ GenerateFine \/ SaveFine \/ FatalError \/ Rerun

(***************************************************************************)
(* nav.rs: areas_walkable without a cache.  The segments are kept in       *)
(* hundredths of a unit; on the directions of the model (axis-parallel and *)
(* the 24 : 32 : 40 diagonal) cos and sin of the angle are exact fractions. *)
(***************************************************************************)
\* 0.9 * PLAYER_WIDTH / 2.0, in hundredths
half_width100 == (90 * PLAYER_WIDTH) \div 2

\* One pass of the loop: the segment for width_correction (in hundredths).
\* angle = dx.atan2(dy), so angle.cos() = dy / r and angle.sin() = dx / r
\* with r the 2D length of (dx, dy); atan2(0, 0) = 0.
walk_segment(area1, area2, width_correction100, height) ==
    LET dx == area2.centroid.x - area1.centroid.x
        dy == area2.centroid.y - area1.centroid.y
        r == distance_2d(area1.centroid, area2.centroid) \div DistanceUnit
        dx_corr == IF r = 0 THEN width_correction100 ELSE Quotient(width_correction100 * dy, r)
        dy_corr == IF r = 0 THEN 0 ELSE Quotient(width_correction100 * dx, r)
    IN  <<Position(100 * area1.centroid.x + dx_corr, 100 * area1.centroid.y + dy_corr, 100 * (area1.centroid.z + height)),
          Position(100 * area2.centroid.x + dx_corr, 100 * area2.centroid.y + dy_corr, 100 * (area2.centroid.z + height))>>

\* The segments of the two passes, for width / 2.0 and -width / 2.0.
walk_segments_of(area1, area2) ==
    LET height == IF requires_crouch(area1) \/ requires_crouch(area2) THEN PLAYER_CROUCH_HEIGHT ELSE PLAYER_HEIGHT
    IN  <<walk_segment(area1, area2, half_width100, height),
          walk_segment(area1, area2, 0 - half_width100, height)>>

\* The areas of the calls: squares around the lattice points, with and
\* without the crouch flag.
WalkAreas ==
    {NavAreaNew(slot + 1, flags, AreaCorners("row", slot + 1), <<>>) : slot \in 0..3, flags \in {0, CROUCHING_ATTRIBUTE_FLAG}}

NoSegments == <<>>

WalkInit ==
    /\ walk_area1 \in WalkAreas
    /\ walk_area2 \in WalkAreas
    /\ walk_checker \in [1..2 -> BOOLEAN]
    /\ walk_segments = NoSegments
    /\ walk_result = FALSE
    /\ walk_pc = "call"

\* areas_walkable is not called.
WalkIdle ==
    /\ walk_area1 = NoArea
    /\ walk_area2 = NoArea
    /\ walk_checker = <<>>
    /\ walk_segments = NoSegments
    /\ walk_result = FALSE
    /\ walk_pc = "idle"

\* areas_walkable(area1, area2, walk_checker, None): false at the first
\* obstructed segment.
AreasWalkable ==
    /\ walk_pc = "call"
    /\ LET segments == walk_segments_of(walk_area1, walk_area2)
       IN  /\ walk_segments' = IF walk_checker[1] THEN segments ELSE SubSeq(segments, 1, 1)
           /\ walk_result' = (walk_checker[1] /\ walk_checker[2])
    /\ walk_pc' = "done"
    /\ UNCHANGED <<walk_area1, walk_area2, walk_checker>>
    /\ UNCHANGED notWalkVars

WalkNext == AreasWalkable

(***************************************************************************)
(* nav.rs: regularize_nav_areas.                                           *)
(*                                                                         *)
(* The original areas of the model are level axis-parallel rectangles      *)
(* inside the box [0, 48] x [0, 64], which every mesh spans, so the grid   *)
(* cells are 48 x 64 or 24 x 32 and the tile centroids are 0, 24, 32 or 40 *)
(* apart and the cell centres have integer coordinates.                    *)
(* The walkability checker is given by the planes it holds: "x" is the     *)
(* wall x = 24, "z" the floor z = 100.                                     *)
(***************************************************************************)
SetMin(set) == CHOOSE least \in set : \A other \in set : least <= other

SetMax(set) == CHOOSE most \in set : \A other \in set : most >= other

\* The orders in which the elements of a HashSet can be iterated.
Orders(set) ==
    {order \in [1..Cardinality(set) -> set] : \A i, j \in 1..Cardinality(set) : order[i] = order[j] => i = j}

RECURSIVE Ascending(_)
Ascending(set) ==
    IF set = {} THEN <<>> ELSE <<SetMin(set)>> \o Ascending(set \ {SetMin(set)})

\* The four corners of a level rectangle.
Rect(x0, y0, x1, y1, z) ==
    <<Position(x0, y0, z), Position(x1, y0, z), Position(x1, y1, z), Position(x0, y1, z)>>

\* A NavArea with its ladders.
RegNavArea(area_id, corners, connections, ladders_above, ladders_below) ==
    [area_id |-> area_id, hull_index |-> 0, dynamic_attribute_flags |-> 0,
     corners |-> corners, connections |-> connections,
     ladders_above |-> ladders_above, ladders_below |-> ladders_below,
     centroid |-> centroid(corners)]

\* regularize_nav_areas: xs and ys, the coordinates of all corners
xs(mesh) == {mesh[id].corners[i].x : id \in DOMAIN mesh, i \in 1..4}

ys(mesh) == {mesh[id].corners[i].y : id \in DOMAIN mesh, i \in 1..4}

\* AdditionalNavAreaInfo.z_level: the mean z of the corners, in hundredths
z_level(area) ==
    Quotient(100 * SumSeq([i \in 1..Len(area.corners) |-> area.corners[i].z]), Len(area.corners))

\* The 2D polygon of an area, kept as its extent (the areas are
\* axis-parallel rectangles).
polygon(area) ==
    [min_x |-> SetMin({area.corners[i].x : i \in 1..Len(area.corners)}),
     max_x |-> SetMax({area.corners[i].x : i \in 1..Len(area.corners)}),
     min_y |-> SetMin({area.corners[i].y : i \in 1..Len(area.corners)}),
     max_y |-> SetMax({area.corners[i].y : i \in 1..Len(area.corners)})]

\* Polygon::intersects(&Polygon): a common point, boundary included.
intersects(poly, other) ==
    /\ poly.min_x <= other.max_x /\ other.min_x <= poly.max_x
    /\ poly.min_y <= other.max_y /\ other.min_y <= poly.max_y

\* The square of Euclidean::distance(polygon.centroid(), center_point); the
\* centroid of a rectangle is its middle.
centroid_to_center2(poly, point) ==
    LET middle_x == (poly.min_x + poly.max_x) \div 2
        middle_y == (poly.min_y + poly.max_y) \div 2
    IN  (middle_x - point.x) * (middle_x - point.x) + (middle_y - point.y) * (middle_y - point.y)

\* The scale of the weights 1 / dist^2 of inverse_distance_weighting.
IdwScale == 1048576

\* inverse_distance_weighting, then (z * 100.0).round(): the value of a
\* point that is the target, else the mean weighted by 1 / dist^2; in
\* hundredths.
inverse_distance_weighting(points, target) ==
    LET dist2(i) == ((target.x - points[i].x) * (target.x - points[i].x)
                        + (target.y - points[i].y) * (target.y - points[i].y))
        on_target == {i \in 1..Len(points) : dist2(i) = 0}
        weight(i) == IdwScale \div dist2(i)
        weighted_sum == SumSeq([i \in 1..Len(points) |-> weight(i) * points[i].z])
        weight_sum == SumSeq([i \in 1..Len(points) |-> weight(i)])
    IN  IF on_target # {} THEN 100 * points[SetMin(on_target)].z
        ELSE Quotient(200 * weighted_sum + weight_sum, 2 * weight_sum)

\* NewNavArea::new: area_id 0 until build_old_to_new_mapping.
NewNavAreaWithOrigs(corners, orig_ids, ladders_above, ladders_below, dynamic_attribute_flags, connections) ==
    [area_id |-> 0, dynamic_attribute_flags |-> dynamic_attribute_flags,
     corners |-> corners, connections |-> connections,
     ladders_above |-> ladders_above, ladders_below |-> ladders_below,
     orig_ids |-> orig_ids, centroid |-> centroid(corners)]

\* create_new_nav_areas: the extent of grid cell (i, j).
cell_poly(mesh, granularity, i, j) ==
    LET min_x == SetMin(xs(mesh))
        min_y == SetMin(ys(mesh))
        cell_width == (SetMax(xs(mesh)) - min_x) \div granularity
        cell_height == (SetMax(ys(mesh)) - min_y) \div granularity
    IN  [min_x |-> min_x + j * cell_width, max_x |-> min_x + j * cell_width + cell_width,
         min_y |-> min_y + i * cell_height, max_y |-> min_y + i * cell_height + cell_height]

\* The centre of a cell.
center_point(cell) == Position((cell.min_x + cell.max_x) \div 2, (cell.min_y + cell.max_y) \div 2, 0)

\* The areas whose polygon contains the centre of the cell.
primary_origs(mesh, cell) ==
    {id \in DOMAIN mesh : contains(mesh[id], center_point(cell))}

\* The areas that only touch the cell.
extra_orig_ids(mesh, cell) ==
    {id \in DOMAIN mesh :
        /\ ~contains(mesh[id], center_point(cell))
        /\ intersects(polygon(mesh[id]), cell)}

\* min_by over the extra ids: one at the least distance to the centre
\* (which one, among equals, depends on the iteration order of the set).
min_ids(mesh, cell) ==
    {id \in extra_orig_ids(mesh, cell) :
        \A other \in extra_orig_ids(mesh, cell) :
            centroid_to_center2(polygon(mesh[id]), center_point(cell))
                <= centroid_to_center2(polygon(mesh[other]), center_point(cell))}

\* The tile pushed for one primary area of a cell.
new_cell(mesh, cell, primary) ==
    LET primary_z == inverse_distance_weighting(mesh[primary].corners, center_point(cell))
        cell_orig_ids == {primary} \cup
            {other \in extra_orig_ids(mesh, cell) :
                other # primary /\ Abs(primary_z - z_level(mesh[other])) <= JUMP_HEIGHT}
        rep_level == primary_z \div 100
    IN  NewNavAreaWithOrigs(Rect(cell.min_x, cell.min_y, cell.max_x, cell.max_y, rep_level),
                      cell_orig_ids,
                      mesh[primary].ladders_above, mesh[primary].ladders_below,
                      mesh[primary].dynamic_attribute_flags, {})

\* The tiles one cell can push: none, one for the nearest touching area,
\* or one per containing area, in the iteration order of the set.
cells_pushed(mesh, cell) ==
    LET primaries == primary_origs(mesh, cell)
    IN  IF primaries = {} /\ extra_orig_ids(mesh, cell) = {} THEN {<<>>}
        ELSE IF primaries = {} THEN {<<new_cell(mesh, cell, min_id)>> : min_id \in min_ids(mesh, cell)}
        ELSE {[k \in 1..Cardinality(primaries) |-> new_cell(mesh, cell, order[k])] : order \in Orders(primaries)}

\* The loop over iproduct!(0..grid_granularity, 0..grid_granularity), from
\* its k-th pass on: the lists new_cells can become.
RECURSIVE new_cells_from(_, _, _)
new_cells_from(mesh, granularity, k) ==
    IF k >= granularity * granularity THEN {<<>>}
    ELSE {pushed \o rest :
            pushed \in cells_pushed(mesh, cell_poly(mesh, granularity, k \div granularity, k % granularity)),
            rest \in new_cells_from(mesh, granularity, k + 1)}

\* build_old_to_new_mapping: numbers the tiles by their index.
number_cells(new_cells) == [idx \in 1..Len(new_cells) |-> [new_cells[idx] EXCEPT !.area_id = idx - 1]]

\* build_old_to_new_mapping: the children of every original id that some
\* tile names.
build_old_to_new_mapping(new_cells) ==
    [orig_id \in UNION {new_cells[idx].orig_ids : idx \in 1..Len(new_cells)} |->
        {idx - 1 : idx \in {at \in 1..Len(new_cells) : orig_id \in new_cells[at].orig_ids}}]

\* connection_unobstructed of the walkability checker, for a segment in
\* hundredths: no plane of the checker between its ends.
reg_unobstructed(walls, segment) ==
    /\ "x" \in walls => (segment[1].x - 2400) * (segment[2].x - 2400) >= 0
    /\ "z" \in walls => (segment[1].z \div 100 - 100) * (segment[2].z \div 100 - 100) >= 0

\* areas_walkable(area, other_area, walk_checker, None)
areas_walkable(walls, area1, area2) ==
    \A pass \in 1..2 : reg_unobstructed(walls, walk_segments_of(area1, area2)[pass])

\* A slip in add_connections_by_reachability: the tile itself is not
\* passed over.
reachable_from_with_self(walls, cells, area) ==
    {other_area.area_id : other_area \in
        {other \in Range(cells) :
            /\ other.area_id \notin area.connections
            /\ \/ area.ladders_above \cap other.ladders_below # {}
               \/ area.ladders_below \cap other.ladders_above # {}
               \/ /\ can_jump_to(area.centroid, other.centroid)
                  /\ areas_walkable(walls, area, other)}}

\* add_connections_by_reachability: conns of one tile.
reachable_from(walls, cells, area) ==
    {other_area.area_id : other_area \in
        {other \in Range(cells) :
            /\ area.area_id # other.area_id
            /\ other.area_id \notin area.connections
            /\ \/ area.ladders_above \cap other.ladders_below # {}
               \/ area.ladders_below \cap other.ladders_above # {}
               \/ /\ can_jump_to(area.centroid, other.centroid)
                  /\ areas_walkable(walls, area, other)}}

\* add_connections_by_reachability
add_connections_by_reachability(walls, cells) ==
    [idx \in 1..Len(cells) |->
        [cells[idx] EXCEPT !.connections = @ \cup reachable_from(walls, cells, cells[idx])]]

\* The square of distance_2d, by which pairs of tiles are ordered.
distance_2d_squared(a, b) == (a.x - b.x) * (a.x - b.x) + (a.y - b.y) * (a.y - b.y)

\* ensure_inter_area_connections: the children of A together with the
\* tiles they are connected to.
neighbors_of_children_of_a(cells, children_of_a) ==
    children_of_a \cup UNION {cells[child_of_a + 1].connections : child_of_a \in children_of_a}

\* A slip in the overlap test: the children of the neighbour are not
\* looked at.
has_overlap_any_neighbor(cells, children_of_a, children_of_neighbor_of_a) ==
    neighbors_of_children_of_a(cells, children_of_a) # {}

\* ensure_inter_area_connections: the test that ends the pass early.
has_overlap(cells, children_of_a, children_of_neighbor_of_a) ==
    \E x \in children_of_neighbor_of_a : x \in neighbors_of_children_of_a(cells, children_of_a)

\* sorted_by(distance_2d).take(3): three pairs none of which is farther
\* apart than a pair left out (all pairs if there are fewer).
EnsureTake == 3

closest_pairs(cells, children_of_a, children_of_neighbor_of_a) ==
    LET pairs_of_children == children_of_a \X children_of_neighbor_of_a
        distance(pair) == distance_2d_squared(cells[pair[1] + 1].centroid, cells[pair[2] + 1].centroid)
    IN  {taken \in SUBSET pairs_of_children :
            /\ Cardinality(taken) = Min(EnsureTake, Cardinality(pairs_of_children))
            /\ \A pair \in taken, left \in pairs_of_children \ taken : distance(pair) <= distance(left)}

\* The inserts of one pass: child_a.connections.insert(child_b) per pair.
insert_connections(cells, taken) ==
    [idx \in 1..Len(cells) |->
        [cells[idx] EXCEPT !.connections = @ \cup {pair[2] : pair \in {p \in taken : p[1] = idx - 1}}]]

\* The order in which the loops of ensure_inter_area_connections meet the
\* original connections: the areas in the order of the HashMap, the
\* connections of each in the order of its list.
RECURSIVE connections_in_order(_, _)
connections_in_order(mesh, order) ==
    IF order = <<>> THEN <<>>
    ELSE [k \in 1..Len(mesh[Head(order)].connections) |-> <<Head(order), mesh[Head(order)].connections[k]>>]
            \o connections_in_order(mesh, Tail(order))

\* From<NewNavArea> for NavArea.  The connections become a Vec in the
\* iteration order of the set; the model keeps the set.
RegNavAreaFrom(item) ==
    [area_id |-> item.area_id, hull_index |-> 0,
     dynamic_attribute_flags |-> item.dynamic_attribute_flags,
     corners |-> item.corners, connections |-> item.connections,
     ladders_above |-> item.ladders_above, ladders_below |-> item.ladders_below,
     centroid |-> item.centroid]

\* The rectangles of the model meshes: the left and right halves and the
\* whole of the box, the right half and the whole on an upper floor, and a
\* small rectangle in a corner on the upper floor.
RegRect(name) ==
    CASE name = "left" -> Rect(0, 0, 24, 64, 0)
      [] name = "whole" -> Rect(0, 0, 48, 64, 0)
      [] name = "right" -> Rect(24, 0, 48, 64, 0)
      [] name = "right_up" -> Rect(24, 0, 48, 64, 128)
      [] name = "whole_up" -> Rect(0, 0, 48, 64, 128)
      [] name = "corner_up" -> Rect(0, 0, 8, 8, 128)

\* A mesh of up to three areas: area 1 on the ground, area 2, area 3 the
\* corner; "none" leaves the area out.  A ladder leads from area 1 up to
\* area 2.
RegMesh(rect1, rect2, rect3, conn1, conn2, conn3, ladder) ==
    LET ids == {id \in 1..3 : <<rect1, rect2, rect3>>[id] # "none"}
    IN  [id \in ids |->
            RegNavArea(id, RegRect(<<rect1, rect2, rect3>>[id]),
                       Ascending(<<conn1, conn2, conn3>>[id]),
                       IF ladder /\ id = 1 THEN {1} ELSE {},
                       IF ladder /\ id = 2 THEN {1} ELSE {})]

\* The meshes: the empty one and those that span the box.
RegMeshes ==
    {RegMesh("none", "none", "none", {}, {}, {}, FALSE)} \cup
    {RegMesh(rect1, rect2, rect3,
             conn1, IF rect2 = "none" THEN {} ELSE conn2, IF rect3 = "none" THEN {} ELSE conn3,
             ladder /\ rect2 # "none") :
        rect1 \in {"left", "whole"}, rect2 \in {"none", "right", "right_up", "whole_up"},
        rect3 \in {"none", "corner_up"},
        conn1 \in {{}, {2}, {1, 2, 3}}, conn2 \in {{}, {1, 3}}, conn3 \in {{}, {1}},
        ladder \in BOOLEAN}

NoTiles == <<>>

NoChildren == <<>>

RegInit ==
    /\ reg_nav_areas \in {mesh \in RegMeshes : mesh = <<>> \/ (SetMax(xs(mesh)) = 48 /\ SetMax(ys(mesh)) = 64)}
    /\ grid_granularity \in {1, 2}
    /\ reg_walls \in {{}, {"x"}, {"x", "z"}}
    /\ new_nav_areas = NoTiles
    /\ old_to_new_children = NoChildren
    /\ ensure_queue = <<>>
    /\ ensure_log = <<>>
    /\ regularized = <<>>
    /\ reg_pc = "start"

\* regularize_nav_areas is not called.
RegIdle ==
    /\ reg_nav_areas = <<>>
    /\ grid_granularity = 0
    /\ reg_walls = {}
    /\ new_nav_areas = NoTiles
    /\ old_to_new_children = NoChildren
    /\ ensure_queue = <<>>
    /\ ensure_log = <<>>
    /\ regularized = <<>>
    /\ reg_pc = "idle"

\* regularize_nav_areas on a mesh without corners: the empty mapping.
RegularizeEmpty ==
    /\ reg_pc = "start"
    /\ xs(reg_nav_areas) = {} \/ ys(reg_nav_areas) = {}
    /\ regularized' = <<>>
    /\ reg_pc' = "done"
    /\ UNCHANGED <<reg_nav_areas, grid_granularity, reg_walls, new_nav_areas, old_to_new_children, ensure_queue, ensure_log>>
    /\ UNCHANGED notRegVars

\* create_new_nav_areas, with build_old_to_new_mapping at its end.
CreateNewNavAreas ==
    /\ reg_pc = "start"
    /\ xs(reg_nav_areas) # {} /\ ys(reg_nav_areas) # {}
    /\ \E new_cells \in new_cells_from(reg_nav_areas, grid_granularity, 0) :
          /\ new_nav_areas' = number_cells(new_cells)
          /\ old_to_new_children' = build_old_to_new_mapping(new_cells)
    /\ reg_pc' = "created"
    /\ UNCHANGED <<reg_nav_areas, grid_granularity, reg_walls, ensure_queue, ensure_log, regularized>>
    /\ UNCHANGED notRegVars

\* add_connections_by_reachability, and the entry into the loops of
\* ensure_inter_area_connections.
AddConnectionsByReachability ==
    /\ reg_pc = "created"
    /\ new_nav_areas' = add_connections_by_reachability(reg_walls, new_nav_areas)
    /\ \E order \in Orders(DOMAIN reg_nav_areas) :
          ensure_queue' = connections_in_order(reg_nav_areas, order)
    /\ reg_pc' = "ensure"
    /\ UNCHANGED <<reg_nav_areas, grid_granularity, reg_walls, old_to_new_children, ensure_log, regularized>>
    /\ UNCHANGED notRegVars

\* One pass of the inner loop of ensure_inter_area_connections, for the
\* original connection a_idx -> neighbor_of_a_idx.
EnsureInterAreaConnection ==
    /\ reg_pc = "ensure"
    /\ ensure_queue # <<>>
    /\ LET a_idx == Head(ensure_queue)[1]
           neighbor_of_a_idx == Head(ensure_queue)[2]
           Log(outcome, taken) ==
               Append(ensure_log, [a_idx |-> a_idx, neighbor_of_a_idx |-> neighbor_of_a_idx,
                                   outcome |-> outcome, taken |-> taken])
       IN  IF a_idx \notin DOMAIN old_to_new_children
           THEN /\ ensure_log' = Log("no children", {})
                /\ UNCHANGED new_nav_areas
           ELSE IF neighbor_of_a_idx \notin DOMAIN old_to_new_children
           THEN /\ ensure_log' = Log("no children of neighbor", {})
                /\ UNCHANGED new_nav_areas
           ELSE IF has_overlap(new_nav_areas, old_to_new_children[a_idx], old_to_new_children[neighbor_of_a_idx])
           THEN /\ ensure_log' = Log("overlap", {})
                /\ UNCHANGED new_nav_areas
           ELSE \E taken \in closest_pairs(new_nav_areas, old_to_new_children[a_idx], old_to_new_children[neighbor_of_a_idx]) :
                   /\ new_nav_areas' = insert_connections(new_nav_areas, taken)
                   /\ ensure_log' = Log("inserted", taken)
    /\ ensure_queue' = Tail(ensure_queue)
    /\ UNCHANGED <<reg_nav_areas, grid_granularity, reg_walls, old_to_new_children, regularized, reg_pc>>
    /\ UNCHANGED notRegVars

\* The end of regularize_nav_areas: the tiles, keyed by their index.
RegularizeReturn ==
    /\ reg_pc = "ensure"
    /\ ensure_queue = <<>>
    /\ regularized' = [key \in 0..(Len(new_nav_areas) - 1) |-> RegNavAreaFrom(new_nav_areas[key + 1])]
    /\ reg_pc' = "done"
    /\ UNCHANGED <<reg_nav_areas, grid_granularity, reg_walls, new_nav_areas, old_to_new_children, ensure_queue, ensure_log>>
    /\ UNCHANGED notRegVars

RegNext ==
    \/ RegularizeEmpty
    \/ CreateNewNavAreas
    \/ AddConnectionsByReachability
    \/ EnsureInterAreaConnection
    \/ RegularizeReturn

(***************************************************************************)
(* Claims about the spread generator.                                      *)
(***************************************************************************)
\* The team's list, and the spotted set of a team.
ListOf(team) == IF team = "ct" THEN spawn_distances_ct ELSE spawn_distances_t

OpposingListOf(team) == IF team = "ct" THEN spawn_distances_t ELSE spawn_distances_ct

SpottedOf(team) == IF team = "ct" THEN spotted_areas_ct ELSE spotted_areas_t

PreviousOf(team) == IF team = "ct" THEN previous_areas_ct ELSE previous_areas_t

Opposing(team) == IF team = "ct" THEN "t" ELSE "ct"

\* C1: in the frames of generate_spreads, for sorted lists with distinct
\* area ids per team, the new_marked_areas_ct set of every frame is disjoint
\* from the new_marked_areas_ct sets of all earlier frames, and likewise for
\* new_marked_areas_t.
C1_NewMarkedDisjoint ==
    \A k, j \in 1..Len(result) :
        k < j =>
            /\ result[k].new_marked_areas_ct \cap result[j].new_marked_areas_ct = {}
            /\ result[k].new_marked_areas_t \cap result[j].new_marked_areas_t = {}

\* A finished run with two frames that each mark CT areas and two frames
\* that each mark T areas.
C1_Witness ==
    /\ spread_pc = "done"
    /\ \E k, j \in 1..Len(result) :
        /\ k < j
        /\ result[k].new_marked_areas_ct # {}
        /\ result[j].new_marked_areas_ct # {}
    /\ \E k, j \in 1..Len(result) :
        /\ k < j
        /\ result[k].new_marked_areas_t # {}
        /\ result[j].new_marked_areas_t # {}

\* C2: every connection (cur, v) of a frame was produced by the iteration
\* that pushed the frame: cur is the entry that iteration took, and v is an
\* entry of the opposing list taken by an earlier iteration whose distance
\* is at most cur's distance (the frame's distance).
C2_ConnectionsOfTheFrameStep ==
    \A k \in 1..Len(result) :
        \A i \in 1..Len(result[k].visibility_connections) :
            LET c   == result[k].visibility_connections[i]
                log == frame_log[k]
            IN  /\ log.team \in {"ct", "t"}
                /\ LET cur == ListOf(log.team)[log.index]
                       opp == OpposingListOf(log.team)
                   IN  /\ c[1] = ReducedSpawnDistance(cur)
                       /\ \E j \in 1..log.opp_index :
                            /\ c[2] = ReducedSpawnDistance(opp[j])
                            /\ opp[j].distance <= cur.distance

\* Two frames with connections, pushed by different iterations.
C2_Witness ==
    \E k, j \in 1..Len(result) :
        /\ k < j
        /\ result[k].visibility_connections # <<>>
        /\ result[j].visibility_connections # <<>>
        /\ frame_log[k].team # frame_log[j].team

\* C3: under Rough, when the iteration takes an entry y whose path holds an
\* area id that is already in y's own team's spotted set, no connection
\* with y as owner is emitted: none is pending after the iteration and none
\* is in a frame the iteration pushes, whatever the cache says.
C3_RoughShadowedPathEmitsNothing ==
    [][ ( /\ spread_pc = "loop"
          /\ style = "Rough"
          /\ NextTeam # "none"
          /\ \E i \in 1..Len(NextEntry.path) :
                NextEntry.path[i] \in SpottedOf(NextTeam) )
        => /\ \A i \in 1..Len(visibility_connections') :
                visibility_connections'[i][1] # ReducedSpawnDistance(NextEntry)
           /\ \A k \in (Len(result) + 1)..Len(result') :
                \A i \in 1..Len(result'[k].visibility_connections) :
                    result'[k].visibility_connections[i][1]
                        # ReducedSpawnDistance(NextEntry)
      ]_vars

\* Rough took y, whose predecessor on the path was spotted earlier, while
\* the cache says y sees an area the opposing team has already reached.
C3_Witness ==
    /\ style = "Rough"
    /\ current_team \in {"ct", "t"}
    /\ current_area.distance # F64_MAX
    /\ \E i \in 1..Len(current_area.path) :
        /\ current_area.path[i] # current_area.area
        /\ current_area.path[i] \in SpottedOf(current_team)
    /\ \E o \in Range(PreviousOf(Opposing(current_team))) :
        visibility_cache[<<current_area.area, o.area>>]
    /\ visible_areas = <<>>

(***************************************************************************)
(* Claims about the Nav and the spawn distances.                           *)
(***************************************************************************)
\* The areas a walk along the graph's edges reaches from the areas in from.
RECURSIVE ReachableFrom(_)
ReachableFrom(from) ==
    LET step == from \cup {e[2] : e \in {d \in DOMAIN nav_graph : d[1] \in from}}
    IN  IF step = from THEN from ELSE ReachableFrom(step)

\* The entry is what the calls find_path(Pos(s), Id(entry.area)), one per
\* spawn point s, allow: the least of their distances, with the path of a
\* call of that distance; the sentinel and no path for no spawn point.
EntryIsMinOverSpawns(entry, spawn_points) ==
    /\ entry.distance = F64_MAX => entry.path = <<>>
    /\ IF spawn_points = <<>> THEN entry.distance = F64_MAX
       ELSE \E paths \in ChoiceSeqs([k \in 1..Len(spawn_points) |-> find_path(IdentPos(spawn_points[k]), IdentId(entry.area))]) :
               /\ \A k \in 1..Len(paths) : entry.distance <= paths[k].distance
               /\ \E k \in 1..Len(paths) : paths[k].distance = entry.distance /\ paths[k].path = entry.path

\* C4: each of the two lists get_distances_from_spawns returns holds every
\* area of the Nav exactly once, with the least find_path distance over the
\* team's spawn points (the sentinel and an empty path if there is none),
\* is sorted by distance as assert_sorted demands, and has its unreachable
\* areas at the end.
C4_SpawnDistancesCompleteAndSorted ==
    nav_call = "get_distances_from_spawns" =>
        \A team \in {"CT", "T"} :
            LET list == distances[team]
            IN  /\ Len(list) = Cardinality(DOMAIN nav_areas)
                /\ \A id \in DOMAIN nav_areas : Cardinality({i \in 1..Len(list) : list[i].area = id}) = 1
                /\ \A i \in 1..Len(list) : EntryIsMinOverSpawns(list[i], spawns[team])
                /\ assert_sorted(list)
                /\ \A i, j \in 1..Len(list) : (i < j /\ list[i].distance = F64_MAX) => list[j].distance = F64_MAX

\* Two CT spawn points, of which the second is the nearer one to some area,
\* and a CT list with two different finite distances and an unreachable area.
C4_Witness ==
    /\ nav_call = "get_distances_from_spawns"
    /\ Len(spawns.CT) = 2
    /\ Len(distances.CT) = 3
    /\ distances.CT[1].distance < distances.CT[2].distance
    /\ distances.CT[2].distance < F64_MAX
    /\ distances.CT[3].distance = F64_MAX
    /\ \E i \in 1..2 :
          /\ UnreachableResult \in find_path(IdentPos(spawns.CT[1]), IdentId(distances.CT[i].area))
          /\ distances.CT[i].path # <<>>

\* C5: when the graph has no path from the resolved start area to the
\* resolved end area, find_path returns normally, with the empty path and
\* the sentinel distance, whatever kinds of endpoint it was given.
C5_NoPathGivesEmptyPathAndSentinel ==
    (/\ nav_call = "find_path"
     /\ start_area \in DOMAIN nav_areas
     /\ end_area \in DOMAIN nav_areas
     /\ end_area \notin ReachableFrom({start_area}))
        => path_result = PathResult(<<>>, F64_MAX)

\* Two positions outside every area, resolved by the closest centroid to
\* two areas without a path from the first to the second, although there is
\* one from the second to the first.
C5_Witness ==
    /\ nav_call = "find_path"
    /\ path_start.kind = "Pos"
    /\ path_end.kind = "Pos"
    /\ find_area(path_start.pos) = {}
    /\ find_area(path_end.pos) = {}
    /\ start_area \in ReachableFrom({end_area})
    /\ end_area \notin ReachableFrom({start_area})
    /\ path_result = PathResult(<<>>, F64_MAX)

\* C6: find_path from the centroid of an area of the Nav to that area's id
\* returns the path of that one area and the distance 0.
C6_CentroidToOwnAreaIsTrivialPath ==
    (/\ nav_call = "find_path"
     /\ path_end.kind = "Id"
     /\ path_end.id \in DOMAIN nav_areas
     /\ path_start = IdentPos(nav_areas[path_end.id].centroid))
        => path_result = PathResult(<<path_end.id>>, 0)

(***************************************************************************)
(* Claims about the collision checker and the triangle reader.             *)
(***************************************************************************)
\* C7: connection_unobstructed gives the same value for a segment and for
\* the segment reversed, also with an endpoint on a triangle.
C7_ConnectionUnobstructedSymmetric ==
    bvh_pc = "queried" => unobstructed = connection_unobstructed(bvh_root[1], ray_end, ray_start)

\* C8: for the empty triangle soup the construction of the checker
\* completes, that is it does not end in a stack overflow, and every
\* segment test on the checker is true.
C8_EmptySoupConstructsAndNeverObstructs ==
    bvh_triangles = <<>> =>
        /\ bvh_pc # "stack_overflow"
        /\ bvh_pc = "queried" => unobstructed

\* The triangles of the file's complete 36-byte records, in order.
TrianglesOfFile(bytes) ==
    [i \in 1..(Len(bytes) \div 36) |-> TriangleFromSlice(SubSeq(bytes, 36 * (i - 1) + 1, 36 * i))]

\* C9: read_tri_file returns the triangles of the file's floor(n / 36)
\* complete records, whatever number of bytes each read returned.
C9_ReadTriFileIndependentOfReadSizes ==
    read_pc = "done" => read_triangles = TrianglesOfFile(file_bytes)

\* p lies in the box, componentwise.
InAabb(aabb, p) ==
    /\ aabb.min_point.x <= p.x /\ p.x <= aabb.max_point.x
    /\ aabb.min_point.y <= p.y /\ p.y <= aabb.max_point.y
    /\ aabb.min_point.z <= p.z /\ p.z <= aabb.max_point.z

\* The invariant of a BVH: a leaf's box holds its triangle's vertices, an
\* inner node's box holds the boxes of both children, no box is inverted.
RECURSIVE AabbInvariant(_)
AabbInvariant(node) ==
    /\ InAabb(node.aabb, node.aabb.min_point)
    /\ IF node.triangle # <<>>
       THEN /\ InAabb(node.aabb, node.triangle[1].p1)
            /\ InAabb(node.aabb, node.triangle[1].p2)
            /\ InAabb(node.aabb, node.triangle[1].p3)
       ELSE /\ \A child \in {node.left[1], node.right[1]} :
                 /\ InAabb(node.aabb, child.aabb.min_point)
                 /\ InAabb(node.aabb, child.aabb.max_point)
                 /\ AabbInvariant(child)

\* C10: in the tree build_bvh returns for a non-empty triangle list every
\* leaf's AABB contains its triangle's three vertices, every inner node's
\* AABB contains the AABBs of both children, and min_point <= max_point
\* componentwise at every node.
C10_BvhAabbInvariant ==
    (bvh_root # <<>> /\ bvh_triangles # <<>>) => AabbInvariant(bvh_root[1])

\* A tree of three different triangles, an inner node below the root, in
\* which the third vertex of a leaf's triangle and the right child of the
\* root each decide a bound of its box.
C10_Witness ==
    /\ bvh_pc = "built"
    /\ Len(bvh_triangles) = 3
    /\ Cardinality(Range(bvh_triangles)) = 3
    /\ bvh_root[1].triangle = <<>>
    /\ bvh_root[1].right[1].triangle = <<>>
    /\ bvh_root[1].aabb.max_point # bvh_root[1].left[1].aabb.max_point
    /\ AabbInvariant(bvh_root[1])

(***************************************************************************)
(* Claims about can_jump_to.                                               *)
(***************************************************************************)
\* C11: a purely vertical jump (no horizontal displacement) succeeds
\* exactly up to the apex JUMP_HEIGHT + CROUCH_JUMP_HEIGHT_GAIN = 66.02
\* above the start: from (0,0,0) it reaches (0,0,60) and not (0,0,70).
C11_VerticalJumpReachesApexOnly ==
    (jump_pc = "done" /\ jump_from.x = jump_to.x /\ jump_from.y = jump_to.y) =>
        jump_result = (100 * (jump_to.z - jump_from.z) <= JUMP_HEIGHT + CROUCH_JUMP_HEIGHT_GAIN)

(***************************************************************************)
(* Claims about Nav::new and NavArea.                                      *)
(***************************************************************************)
\* The speed an area allows: CROUCHING_SPEED if it requires crouch.
AreaSpeed(area) == IF requires_crouch(area) THEN CROUCHING_SPEED ELSE RUNNING_SPEED

\* C12: the weight of every edge u -> v of the graph is the 2D distance of
\* the two centroids divided by the average of the two relative speeds
\* AreaSpeed / RUNNING_SPEED, that is
\*   weight * (speed(u) + speed(v)) = 2 * RUNNING_SPEED * distance,
\* also when exactly one of u and v requires crouch.
C12_EdgeWeightIsDistanceOverAverageSpeed ==
    \A e \in DOMAIN nav_graph :
        nav_graph[e] * (AreaSpeed(nav_areas[e[1]]) + AreaSpeed(nav_areas[e[2]]))
            = 2 * RUNNING_SPEED * distance_2d(nav_areas[e[1]].centroid, nav_areas[e[2]].centroid)

\* C13: every NavArea that was made, by NavArea::new, by the regularization
\* or by deserialization with or without a "centroid" key, has as centroid
\* the componentwise mean of its corners.
C13_CentroidIsMeanOfCorners ==
    (area_pc = "done" /\ nav_area.corners # <<>>) =>
        LET corners == nav_area.corners
            count == Len(corners)
        IN  /\ count * nav_area.centroid.x = SumSeq([i \in 1..count |-> corners[i].x])
            /\ count * nav_area.centroid.y = SumSeq([i \in 1..count |-> corners[i].y])
            /\ count * nav_area.centroid.z = SumSeq([i \in 1..count |-> corners[i].z])

(***************************************************************************)
(* Claims about the order of the steps of generate_spreads.                *)
(***************************************************************************)
\* C14: every step of generate_spreads that takes an entry takes one whose
\* distance is at least the distance of the entry taken before it, whichever
\* team each belongs to; and last_plotted, 0 at the start, never decreases:
\* a step leaves it alone or sets it to the least multiple of 100 that is at
\* least the distance of the entry taken.
C14_DistanceOrderAndLastPlottedMonotone ==
    [][/\ (current_team' # "none" /\ current_team # "none") =>
              current_area'.distance >= current_area.distance
       /\ last_plotted' >= last_plotted
       /\ last_plotted' # last_plotted =>
              /\ last_plotted' % 100 = 0
              /\ last_plotted' >= current_area'.distance
              /\ last_plotted' - 100 < current_area'.distance]_vars

\* Entries of both teams were taken, a CT entry after a T entry or the other
\* way round, and last_plotted has risen twice.
C14_Witness ==
    /\ ct_index >= 1 /\ t_index >= 1
    /\ Len(frame_log) >= 2
    /\ frame_log[1].team # "none" /\ frame_log[2].team # "none"
    /\ frame_log[1].team # frame_log[2].team
    /\ last_plotted = 200

(***************************************************************************)
(* Claims about the commands of main.rs.                                   *)
(***************************************************************************)
\* The five files of a map as the directory layout names them.
LayoutFiles(map_name) ==
    <<Path("maps", map_name, "", "png"),
      Path("tri", map_name, "", "tri"),
      Path("tri", map_name, "-clippings", "tri"),
      Path("nav", map_name, "", "json"),
      Path("spawns", map_name, "", "json")>>

\* C15: when process-maps has run, a map is in the list it reports exactly
\* when maps/<map>.png, tri/<map>.tri, tri/<map>-clippings.tri,
\* nav/<map>.json and spawns/<map>.json all existed and hashes/<map>.txt
\* did not hold the hash of their contents; a map with only some of the
\* files is not reported.
C15_ReportedIffCompleteAndChanged ==
    [][maps_pc = "process" =>
        \A map_name \in MapNames :
            LET layout == LayoutFiles(map_name)
                complete == \A i \in 1..Len(layout) : exists(fs_files, layout[i])
            IN  map_name \in maps_to_update' <=>
                    /\ complete
                    /\ load_existing_hash(fs_files, map_name)
                           # SomeHash(Sha256(Concat([i \in 1..Len(layout) |-> fs_files[layout[i]]])))]_vars

\* C16: when a run of nav-analysis has ended by a fatal error, that run has
\* written no spread result file, neither the rough nor the fine one.
C16_AbortedRunWroteNoSpreads ==
    analysis_pc = "aborted" => spreads_saved = {}

\* C17: a call of get_visibility_cache never fails, and the cache it returns
\* has an entry for every ordered pair of areas, also when an earlier build
\* was interrupted after the cache file was created and before it was
\* written in full.
C17_VisibilityCacheSurvivesInterruptedBuild ==
    [][/\ analysis_pc = "vis_cache" => analysis_pc' # "aborted"
       /\ (analysis_pc' = "rough" /\ analysis_pc # "rough") =>
              DOMAIN main_visibility_cache' = Range(CachePairs)]_vars

(***************************************************************************)
(* Claims about one step of generate_spreads.                              *)
(***************************************************************************)
\* C18: a step that takes an entry cur with a distance other than the
\* sentinel pushes a frame exactly when the newly visible areas are not
\* empty or cur.distance > last_plotted + 100.  When it pushes one, the
\* pending new_marked sets and connections are empty after the step and
\* last_plotted is the least multiple of 100 that is at least cur.distance;
\* when it pushes none, last_plotted is unchanged and the pending sets (with
\* cur's area marked) and connections are kept for the next step.
C18_FrameEmittedIffVisibleOrFar ==
    [][(spread_pc = "loop" /\ NextTeam # "none" /\ NextEntry.distance # F64_MAX) =>
          LET cur == NextEntry
              marked_ct == IF NextTeam = "ct" THEN new_marked_areas_ct \cup {cur.area} ELSE new_marked_areas_ct
              marked_t == IF NextTeam = "t" THEN new_marked_areas_t \cup {cur.area} ELSE new_marked_areas_t
              emitted == Len(result') = Len(result) + 1
          IN  /\ Len(result') \in {Len(result), Len(result) + 1}
              /\ emitted <=> (visible_areas' # <<>> \/ cur.distance > last_plotted + 100)
              /\ emitted =>
                    /\ new_marked_areas_ct' = {} /\ new_marked_areas_t' = {}
                    /\ visibility_connections' = <<>>
                    /\ result'[Len(result')].new_marked_areas_ct = marked_ct
                    /\ result'[Len(result')].new_marked_areas_t = marked_t
                    /\ last_plotted' % 100 = 0
                    /\ last_plotted' >= cur.distance
                    /\ last_plotted' - 100 < cur.distance
              /\ ~emitted =>
                    /\ last_plotted' = last_plotted
                    /\ new_marked_areas_ct' = marked_ct /\ new_marked_areas_t' = marked_t
                    /\ visibility_connections' = visibility_connections
                    /\ result' = result]_vars

\* A frame was pushed for the distance alone, a later one for newly visible
\* areas, and the last step pushed none.
C18_Witness ==
    /\ spread_pc = "loop"
    /\ current_team \in {"ct", "t"}
    /\ visible_areas = <<>>
    /\ new_marked_areas_ct \cup new_marked_areas_t # {}
    /\ \E k, j \in 1..Len(result) :
        /\ k < j
        /\ result[k].visibility_connections = <<>>
        /\ result[j].visibility_connections # <<>>

\* C19: under Fine, the step that takes a reachable entry cur emits exactly
\* the connections (cur, o), in the order of the opposing list, for the
\* entries o the opposing team took earlier with cache[(cur, o)] true and
\* not both cur in the own spotted set and o in the opposing spotted set,
\* the sets being those after the path-shadowing rule of the step.  The
\* only changes of the spotted sets in the step are the path shadowing and
\* the marking of cur and of the areas o of the connections.
C19_FineConnectionsAreUnspottedVisiblePairs ==
    [][(spread_pc = "loop" /\ style = "Fine" /\ NextTeam # "none" /\ NextEntry.distance # F64_MAX) =>
          LET cur == NextEntry
              own == SpottedOf(NextTeam)
              opposing == SpottedOf(Opposing(NextTeam))
              n == Len(cur.path)
              shadowed == IF n >= 2 /\ cur.path[n - 1] \in own THEN own \cup {cur.area} ELSE own
              earlier == PreviousOf(Opposing(NextTeam))
              seen == {j \in 1..Len(earlier) :
                          /\ visibility_cache[<<cur.area, earlier[j].area>>]
                          /\ ~(cur.area \in shadowed /\ earlier[j].area \in opposing)}
              pairs == {<<ReducedSpawnDistance(cur), ReducedSpawnDistance(earlier[j])>> : j \in seen}
              emitted == IF Len(result') > Len(result)
                         THEN result'[Len(result')].visibility_connections
                         ELSE visibility_connections'
          IN  /\ Range(emitted) = pairs
              /\ Len(emitted) = Cardinality(seen)
              /\ \A i, j \in 1..Len(emitted) :
                    i < j => \E a, b \in seen :
                                /\ a < b
                                /\ emitted[i][2] = ReducedSpawnDistance(earlier[a])
                                /\ emitted[j][2] = ReducedSpawnDistance(earlier[b])
              /\ (IF NextTeam = "ct" THEN spotted_areas_ct' ELSE spotted_areas_t')
                     = IF seen = {} THEN shadowed ELSE shadowed \cup {cur.area}
              /\ (IF NextTeam = "ct" THEN spotted_areas_t' ELSE spotted_areas_ct')
                     = opposing \cup {earlier[j].area : j \in seen}]_vars

\* Fine took cur, in its own spotted set by path shadowing; the cache says
\* it sees two opposing areas, and only the one not yet spotted is in a
\* connection.
C19_Witness ==
    /\ style = "Fine"
    /\ current_team \in {"ct", "t"}
    /\ current_area.distance # F64_MAX
    /\ Len(visible_areas) = 1
    /\ \E o \in Range(PreviousOf(Opposing(current_team))) :
        /\ visibility_cache[<<current_area.area, o.area>>]
        /\ o \notin Range(visible_areas)
    /\ result # <<>>
    /\ Len(result[Len(result)].visibility_connections) = 1

\* C20: pushing a frame empties the pending visibility_connections under
\* Fine only: under Rough the push leaves the list as it is, so that the
\* frame pushed holds the connections of all earlier frames as well.
C20_ConnectionsClearedUnderFineOnly ==
    [][(spread_pc = "loop" /\ Len(result') > Len(result)) =>
          IF style = "Fine"
          THEN visibility_connections' = <<>>
          ELSE /\ visibility_connections' = result'[Len(result')].visibility_connections
               /\ \A k \in 1..Len(result) :
                     Range(result[k].visibility_connections)
                         \subseteq Range(result'[Len(result')].visibility_connections)]_vars

(***************************************************************************)
(* Claims about find_path.                                                 *)
(***************************************************************************)
\* C21: when find_path is called with two area ids and the path astar
\* returns has more than two areas, the distance returned is the sum of the
\* edge weights over every window of the path, the A* cost.
C21_IdToIdDistanceIsPathCost ==
    (/\ nav_call = "find_path"
     /\ path_start.kind = "Id" /\ path_end.kind = "Id"
     /\ path_result.outcome = "ok"
     /\ Len(path_result.path) > 2)
        => path_result.distance = path_cost(path_result.path)

\* C22: an endpoint of find_path given as a position inside no area is
\* resolved to an area whose centroid is at the least 2D distance from the
\* position, whatever the z of the position and of the centroids.
C22_ClosestAreaByDistance2d ==
    (nav_call = "find_path" /\ path_result.outcome # "panic") =>
        /\ (path_start.kind = "Pos" /\ find_area(path_start.pos) = {}) =>
              \A other \in DOMAIN nav_areas :
                  distance_2d(nav_areas[start_area].centroid, path_start.pos)
                      <= distance_2d(nav_areas[other].centroid, path_start.pos)
        /\ (path_end.kind = "Pos" /\ find_area(path_end.pos) = {}) =>
              \A other \in DOMAIN nav_areas :
                  distance_2d(nav_areas[end_area].centroid, path_end.pos)
                      <= distance_2d(nav_areas[other].centroid, path_end.pos)

\* C23: can_jump_to is true for every two positions whose 2D distance is at
\* most the foothold allowance PLAYER_WIDTH * 1.15, whatever their heights.
C23_WithinFootholdAlwaysJumpable ==
    (jump_pc = "done" /\ 100 * distance_2d(jump_from, jump_to) <= DistanceUnit * PLAYER_WIDTH * 115)
        => jump_result

(***************************************************************************)
(* Claims about areas_walkable.                                            *)
(***************************************************************************)
\* C25: in areas_walkable(a, b) each segment tested is the segment of the
\* two centroids moved by one horizontal offset that is perpendicular in
\* the xy-plane to the line from a's centroid to b's, whatever the direction
\* of that line, and lifted by PLAYER_HEIGHT, or by PLAYER_CROUCH_HEIGHT if
\* a or b requires crouch; the value is true exactly when the two segments
\* are unobstructed.
C25_WalkOffsetsPerpendicular ==
    walk_pc = "done" =>
        LET a == walk_area1.centroid
            b == walk_area2.centroid
            height == IF requires_crouch(walk_area1) \/ requires_crouch(walk_area2) THEN PLAYER_CROUCH_HEIGHT ELSE PLAYER_HEIGHT
        IN  /\ walk_result = (walk_checker[1] /\ walk_checker[2])
            /\ \A i \in 1..Len(walk_segments) :
                  LET from == walk_segments[i][1]
                      to == walk_segments[i][2]
                  IN  /\ from.x - 100 * a.x = to.x - 100 * b.x
                      /\ from.y - 100 * a.y = to.y - 100 * b.y
                      /\ from.z = 100 * (a.z + height)
                      /\ to.z = 100 * (b.z + height)
                      /\ (from.x - 100 * a.x) * (b.x - a.x) + (from.y - 100 * a.y) * (b.y - a.y) = 0

(***************************************************************************)
(* Claims about a whole run of generate_spreads.                           *)
(***************************************************************************)
\* The frames of the result whose new_marked set of the team holds the area.
FramesMarking(team, area) ==
    {k \in 1..Len(result) :
        area \in (IF team = "ct" THEN result[k].new_marked_areas_ct ELSE result[k].new_marked_areas_t)}

\* The area ids of the entries the team has taken so far.
TakenBy(team) == {entry.area : entry \in Range(PreviousOf(team))}

\* C26: when generate_spreads has stopped, every entry of either list with
\* a distance other than the sentinel was taken, and its area id is in the
\* new_marked set of its team in exactly one frame of the result; so a stop
\* on a sentinel entry leaves no reachable entry behind.
C26_EveryReachableEntryInExactlyOneFrame ==
    spread_pc = "done" =>
        /\ \A i \in 1..Len(spawn_distances_ct) :
              spawn_distances_ct[i].distance # F64_MAX =>
                  /\ i <= ct_index
                  /\ Cardinality(FramesMarking("ct", spawn_distances_ct[i].area)) = 1
        /\ \A i \in 1..Len(spawn_distances_t) :
              spawn_distances_t[i].distance # F64_MAX =>
                  /\ i <= t_index
                  /\ Cardinality(FramesMarking("t", spawn_distances_t[i].area)) = 1

\* A run that stopped on a sentinel entry of one list, with an entry of the
\* other list never taken, after reachable entries of both teams.
C26_Witness ==
    /\ spread_pc = "done"
    /\ current_area.distance = F64_MAX
    /\ ct_index + t_index < Len(spawn_distances_ct) + Len(spawn_distances_t)
    /\ \E i \in 1..Len(spawn_distances_ct) : spawn_distances_ct[i].distance # F64_MAX
    /\ \E i \in 1..Len(spawn_distances_t) : spawn_distances_t[i].distance # F64_MAX
    /\ Len(result) >= 2

\* C27: an area whose entry in a team's list has the sentinel distance is
\* in no frame's new_marked set of that team.
C27_UnreachableAreaNeverMarked ==
    /\ \A i \in 1..Len(spawn_distances_ct) :
          spawn_distances_ct[i].distance = F64_MAX =>
              FramesMarking("ct", spawn_distances_ct[i].area) = {}
    /\ \A i \in 1..Len(spawn_distances_t) :
          spawn_distances_t[i].distance = F64_MAX =>
              FramesMarking("t", spawn_distances_t[i].area) = {}

\* C28: generate_spreads makes at most |CT| + |T| + 1 loop iterations, each
\* of which advances exactly one of the two indices or stops, and a loop
\* that has not stopped can make its next iteration; when it has stopped
\* the result ends with the frame pushed at the break, so it is not empty,
\* and for two empty lists it is one frame with empty sets and no
\* connections.
C28_TerminatesWithTerminalFrame ==
    /\ iterations <= Len(spawn_distances_ct) + Len(spawn_distances_t) + 1
    /\ spread_pc = "loop" =>
          /\ iterations = ct_index + t_index
          /\ iterations <= Len(spawn_distances_ct) + Len(spawn_distances_t)
          /\ NextTeam = "none" <=> (ct_index = Len(spawn_distances_ct) /\ t_index = Len(spawn_distances_t))
    /\ spread_pc = "done" =>
          /\ iterations \in {ct_index + t_index, ct_index + t_index + 1}
          /\ result # <<>>
          /\ Len(frame_log) = Len(result)
          /\ frame_log[Len(frame_log)].team = "none"
          /\ (spawn_distances_ct = <<>> /\ spawn_distances_t = <<>>) =>
                result = <<[new_marked_areas_ct |-> {}, new_marked_areas_t |-> {}, visibility_connections |-> <<>>]>>

\* A run over two full lists that stopped with both exhausted, after
\* |CT| + |T| + 1 iterations and more than one frame.
C28_Witness ==
    /\ spread_pc = "done"
    /\ Len(spawn_distances_ct) = NumAreas /\ Len(spawn_distances_t) = NumAreas
    /\ iterations = 2 * NumAreas + 1
    /\ Len(result) >= 2

\* C29: in every step of generate_spreads, in both styles, each team's
\* spotted set keeps what it held and holds only area ids of entries that
\* team has taken from its own list.
C29_SpottedGrowsWithinTaken ==
    [][/\ spotted_areas_ct \subseteq spotted_areas_ct'
       /\ spotted_areas_t \subseteq spotted_areas_t'
       /\ spotted_areas_ct' \subseteq {entry.area : entry \in Range(previous_areas_ct')}
       /\ spotted_areas_t' \subseteq {entry.area : entry \in Range(previous_areas_t')}]_vars

\* Both teams have spotted areas, one by path shadowing alone, and one team
\* has taken an area that is not spotted.
C29_Witness ==
    /\ spotted_areas_ct # {} /\ spotted_areas_t # {}
    /\ \E team \in {"ct", "t"} : SpottedOf(team) # TakenBy(team)
    /\ current_team \in {"ct", "t"}
    /\ current_area.distance # F64_MAX
    /\ visible_areas = <<>>
    /\ current_area.area \in SpottedOf(current_team)

(***************************************************************************)
(* Claims about regularize_nav_areas.                                      *)
(***************************************************************************)
\* C24: when regularize_nav_areas has returned, for every original
\* connection A -> B where A and B both have child tiles, some child of A
\* is a child of B or is connected to a child of B; the preservation loop
\* has visited every original connection, has inserted nothing for one
\* with a childless end, and at most three connections for any.
C24_OriginalConnectionsPreserved ==
    reg_pc = "done" =>
        /\ \A a \in DOMAIN reg_nav_areas : \A k \in 1..Len(reg_nav_areas[a].connections) :
              LET b == reg_nav_areas[a].connections[k]
              IN  (a \in DOMAIN old_to_new_children /\ b \in DOMAIN old_to_new_children) =>
                      \E child \in old_to_new_children[a] :
                          \/ child \in old_to_new_children[b]
                          \/ regularized[child].connections \cap old_to_new_children[b] # {}
        /\ Len(ensure_log) = SumSeq([i \in 1..3 |-> IF i \in DOMAIN reg_nav_areas THEN Len(reg_nav_areas[i].connections) ELSE 0])
        /\ \A i \in 1..Len(ensure_log) :
              /\ Cardinality(ensure_log[i].taken) <= 3
              /\ (\/ ensure_log[i].a_idx \notin DOMAIN old_to_new_children
                  \/ ensure_log[i].neighbor_of_a_idx \notin DOMAIN old_to_new_children)
                     => ensure_log[i].taken = {}

\* A finished run in which the loop inserted three connections for one
\* original connection, of four pairs of children, and passed over another
\* whose neighbour has no child tile.
C24_Witness ==
    /\ reg_pc = "done"
    /\ \E i \in 1..Len(ensure_log) :
          /\ ensure_log[i].outcome = "inserted"
          /\ Cardinality(ensure_log[i].taken) = 3
          /\ Cardinality(old_to_new_children[ensure_log[i].a_idx]) * Cardinality(old_to_new_children[ensure_log[i].neighbor_of_a_idx]) > 3
    /\ \E i \in 1..Len(ensure_log) : ensure_log[i].outcome = "no children of neighbor"
    /\ \E i \in 1..Len(ensure_log) : ensure_log[i].outcome = "overlap"

\* C30: the mapping regularize_nav_areas returns has the keys 0..N-1, every
\* tile has its key as area_id, every id in a tile's connections is a key,
\* and no tile is connected to itself.
C30_RegularizedMappingWellFormed ==
    reg_pc = "done" =>
        /\ DOMAIN regularized = 0..(Cardinality(DOMAIN regularized) - 1)
        /\ \A key \in DOMAIN regularized :
              /\ regularized[key].area_id = key
              /\ regularized[key].connections \subseteq DOMAIN regularized
              /\ key \notin regularized[key].connections

\* A returned mapping of at least three tiles, with connections found by
\* reachability and connections inserted by the preservation loop.
C30_Witness ==
    /\ reg_pc = "done"
    /\ Cardinality(DOMAIN regularized) >= 3
    /\ \E i \in 1..Len(ensure_log) : ensure_log[i].outcome = "inserted"
    /\ \E key \in DOMAIN regularized :
          regularized[key].connections \ UNION {{pair[2] : pair \in ensure_log[i].taken} : i \in 1..Len(ensure_log)} # {}

(***************************************************************************)
(* Specifications.                                                         *)
(***************************************************************************)
\* generate_spreads on every input of the model.
SpecSpreadInit == SpreadInit /\ NavIdle /\ TriIdle /\ BvhIdle /\ JumpIdle /\ AreaIdle /\ MapsIdle /\ AnalysisIdle /\ WalkIdle /\ RegIdle

SpecSpread == SpecSpreadInit /\ [][SpreadNext]_vars

\* One call of find_path on every Nav.
SpecNavInit == NavInit /\ SpreadIdle /\ TriIdle /\ BvhIdle /\ JumpIdle /\ AreaIdle /\ MapsIdle /\ AnalysisIdle /\ WalkIdle /\ RegIdle

SpecNav == SpecNavInit /\ [][NavNext]_vars

\* One call of get_distances_from_spawns on every Nav without crouch areas.
SpecDistancesInit == DistancesInit /\ SpreadIdle /\ TriIdle /\ BvhIdle /\ JumpIdle /\ AreaIdle /\ MapsIdle /\ AnalysisIdle /\ WalkIdle /\ RegIdle

SpecDistances == SpecDistancesInit /\ [][DistancesNext]_vars

\* read_tri_file on every file of the model, with every way of reading it.
SpecTriInit == TriInit /\ SpreadIdle /\ NavIdle /\ BvhIdle /\ JumpIdle /\ AreaIdle /\ MapsIdle /\ AnalysisIdle /\ WalkIdle /\ RegIdle

SpecTri == SpecTriInit /\ [][TriNext]_vars

\* build_bvh on every triangle soup of the model, then one segment test.
SpecBvhInit == BvhInit /\ SpreadIdle /\ NavIdle /\ TriIdle /\ JumpIdle /\ AreaIdle /\ MapsIdle /\ AnalysisIdle /\ WalkIdle /\ RegIdle

SpecBvh == SpecBvhInit /\ [][BvhNext]_vars

\* One call of can_jump_to on every pair of positions of the model.
SpecJumpInit == JumpInit /\ SpreadIdle /\ NavIdle /\ TriIdle /\ BvhIdle /\ AreaIdle /\ MapsIdle /\ AnalysisIdle /\ WalkIdle /\ RegIdle

SpecJump == SpecJumpInit /\ [][JumpNext]_vars

\* One NavArea made in each of the three ways, from every input of the model.
SpecAreaInit == AreaInit /\ SpreadIdle /\ NavIdle /\ TriIdle /\ BvhIdle /\ JumpIdle /\ MapsIdle /\ AnalysisIdle /\ WalkIdle /\ RegIdle

SpecArea == SpecAreaInit /\ [][AreaNext]_vars

\* The process-maps command in every working directory of the model.
SpecMapsInit == MapsInit /\ SpreadIdle /\ NavIdle /\ TriIdle /\ BvhIdle /\ JumpIdle /\ AreaIdle /\ AnalysisIdle /\ WalkIdle /\ RegIdle

SpecMaps == SpecMapsInit /\ [][MapsNext]_vars

\* Runs of the nav-analysis command in one working directory.
SpecAnalysisInit == AnalysisInit /\ SpreadIdle /\ NavIdle /\ TriIdle /\ BvhIdle /\ JumpIdle /\ AreaIdle /\ MapsIdle /\ WalkIdle /\ RegIdle

SpecAnalysis == SpecAnalysisInit /\ [][AnalysisNext]_vars

\* One call of areas_walkable on every pair of areas of the model.
SpecWalkInit == WalkInit /\ SpreadIdle /\ NavIdle /\ TriIdle /\ BvhIdle /\ JumpIdle /\ AreaIdle /\ MapsIdle /\ AnalysisIdle /\ RegIdle

SpecWalk == SpecWalkInit /\ [][WalkNext]_vars

SpecRegInit == RegInit /\ SpreadIdle /\ NavIdle /\ TriIdle /\ BvhIdle /\ JumpIdle /\ AreaIdle /\ MapsIdle /\ AnalysisIdle /\ WalkIdle

SpecReg == SpecRegInit /\ [][RegNext]_vars

=============================================================================
